---- MODULE Spec2Model ----
(***************************************************************************)
(* Model of the training-job orchestrator of ui/backend/api/training.py:   *)
(* the in-memory job registry, the request handlers that write to it and   *)
(* the background driver (start_training followed by run_training_thread)  *)
(* that walks one job record through its phases; beside it, the tunnel     *)
(* registry, the key lookup and the blocking command channel of            *)
(* services/ssh.py with the instance handlers that use them, and the offer *)
(* search of services/vast.py with the launch handler built on it.         *)
(***************************************************************************)
EXTENDS Integers, Sequences, FiniteSets, TLC

\* ------------------------------------------------------------------ bounds
\* requests (create_job, update_job, start_job, delete_job) served in one
\* behaviour.
MaxCalls == 2
\* lines one training output stream carries before it ends.
MaxLines == 2
\* characters of one output line (the marker STEP: counts as one).
MaxLineLen == 4

\* ------------------------------------------------------------ basic values
\* Python's None, and a value that is present.
None == <<>>
Some(v) == <<v>>

\* datetime.utcnow().isoformat(): some non-empty string.
utcnow == Some("utcnow")

\* The five statuses the orchestrator itself writes.
Statuses == {"pending", "running", "uploading", "completed", "failed"}

\* TrainingJobUpdate.status is Optional[str]: any string passes validation.
\* The values used exercise each branch of update_job.
UpdateStatuses == {None, Some("running"), Some("completed"), Some("paused")}
UpdateSteps == {None, Some(0)}
UpdateErrors == {None, Some("oom")}
TrainingJobUpdate == [status : UpdateStatuses, current_step : UpdateSteps, error : UpdateErrors]

\* TrainingJobCreate.steps values submitted.
StepsChoices == {12}

\* str(e) of the exceptions the collaborators raise.
ExcMsgs == {"timed out"}

\* stderr of a remote command that exits non-zero.
Stderrs == {"mkdir: denied"}

\* ------------------------------------------------- progress line parsing
\* One output line is a sequence of characters; "STEP:" stands for the five
\* characters of the marker.
Digits == {"0", "2"}
Chars == {"STEP:", "x"} \cup Digits

RECURSIVE SeqsUpTo(_, _)
SeqsUpTo(S, n) ==
  IF n = 0 THEN {<<>>}
  ELSE LET shorter == SeqsUpTo(S, n - 1)
       IN shorter \cup {Append(s, c) : s \in {t \in shorter : Len(t) = n - 1}, c \in S}

Lines == SeqsUpTo(Chars, MaxLineLen)

\* The lines a modelled training stream carries.
StreamLines == {<<"x">>, <<"STEP:", "2", "0">>}

DigitVal(c) == IF c = "0" THEN 0 ELSE 2

\* \d+ at position i of line: the end of the longest run of digits from i
\* (i - 1 when there is none).
RECURSIVE DigitsEnd(_, _)
DigitsEnd(line, i) ==
  IF i <= Len(line) /\ line[i] \in Digits THEN DigitsEnd(line, i + 1) ELSE i - 1

\* int(s) of the digits line[i..j].
RECURSIVE IntOf(_, _, _)
IntOf(line, i, j) ==
  IF j < i THEN 0 ELSE IntOf(line, i, j - 1) * 10 + DigitVal(line[j])

\* re.match in place of re.search: the marker is looked for at position i only.
ReMatch(line, i) ==
  IF i <= Len(line) /\ line[i] = "STEP:" /\ DigitsEnd(line, i + 1) >= i + 1
  THEN Some(IntOf(line, i + 1, DigitsEnd(line, i + 1)))
  ELSE None

\* re.search(r'STEP:(\d+)', line) from position i: the leftmost position at
\* which the marker is followed by at least one digit; group(1) is the longest
\* run of digits there. None when no position matches.
RECURSIVE ReSearch(_, _)
ReSearch(line, i) ==
  IF i > Len(line) THEN None
  ELSE IF line[i] = "STEP:" /\ DigitsEnd(line, i + 1) >= i + 1
       THEN Some(IntOf(line, i + 1, DigitsEnd(line, i + 1)))
       ELSE ReSearch(line, i + 1)

\* match = re.search(...); step = int(match.group(1))
MatchStep(line) == ReSearch(line, 1)

\* ------------------------------------------------------------------ state
VARIABLES
  training_jobs,  \* ids registered in the job registry (the dict's keys)
  job,            \* the job dicts ever created, by id; a driver keeps its own
                  \* reference, so a deleted job's dict stays writable
  drive,          \* the background drivers ever scheduled, in scheduling order
  calls,          \* how many requests were served
  rewritten,      \* ids of the jobs update_job or start_job has written to
  response,       \* the answer to the last request the job API has served
  ssh_service,    \* the SSHService object: its tunnels dict and its lock
  forwarders,     \* the SSHTunnelForwarder objects ever constructed
  threads,        \* the calls into ssh_service and the instances API in flight
  provider,       \* the marketplace: the instances a destroy call has ended
  search,         \* one search_gpus call: its filter, the response, its result
  launch,         \* one launch_instance call: its request, the offers, its attempts
  files           \* the key files under ~/.ssh, by path

\* The state of the job orchestrator, and that of the services beside it.
orchestrator == <<training_jobs, job, drive, calls, rewritten, response>>
services == <<ssh_service, forwarders, threads, provider, search, launch, files>>

vars == <<training_jobs, job, drive, calls, rewritten, response,
          ssh_service, forwarders, threads, provider, search, launch, files>>

Phases == {"setup", "deps", "train", "check", "download", "upload"}

\* A driver just scheduled by background_tasks.add_task(start_training, ...).
\* prior keeps the status the record had when start_job scheduled the driver
\* (None for the driver create_job schedules).
NewDrive(j) ==
  [job |-> j, pc |-> "start_training", e |-> None, stdout_stream |-> 0, line |-> <<>>,
   client |-> "none", res |-> [p \in Phases |-> "-"], prior |-> None]

\* create_job, start_job and start_training are coroutines of one event loop:
\* a handler coroutine runs only while no start_training is between its
\* failed check and its return (there is no await between lines 186 and 190,
\* 193 and 197, 203 and 207, 220 and 222).
EventLoopFree == \A d \in DOMAIN drive : drive[d].pc \notin {"pf_status", "pf_error"}

\* ------------------------------------------------------------ the key files
\* ssh.py 18-23: the default key paths, in order of preference; and the path
\* a tunnel request may name instead.
key_paths == <<"~/.ssh/vast_rsa", "~/.ssh/id_ed25519", "~/.ssh/id_rsa", "~/.ssh/vast_ai">>
CustomPath == "~/.ssh/custom"
Paths == {key_paths[k] : k \in DOMAIN key_paths} \cup {CustomPath}

\* What a path holds: nothing; an unencrypted private key of one of the three
\* types; a passphrase-protected key in the OpenSSH format (every parser asks
\* for the passphrase before it looks at the type); a passphrase-protected
\* ECDSA key in the PEM format (the other parsers reject its header); a file
\* that is no key of these types; a file the process may not read.
KeyTypes == <<"rsa", "ed25519", "ecdsa">>
FileKinds == {"absent", "rsa", "ed25519", "ecdsa", "encrypted", "encrypted_ecdsa",
              "garbage", "unreadable"}

\* No key file at all, and the one key of a machine set up for the marketplace.
NoFiles == [p \in Paths |-> "absent"]
VastKey == [p \in Paths |-> IF p = key_paths[1] THEN "rsa" ELSE "absent"]

\* paramiko.<Type>Key.from_private_key_file(path) for a file of the given
\* kind: the key, or the exception raised.
FromPrivateKeyFile(type, kind) ==
  CASE kind = type -> "ok"
    [] kind = "absent" -> "FileNotFoundError"
    [] kind = "encrypted" -> "PasswordRequiredException"
    [] kind = "encrypted_ecdsa" /\ type = "ecdsa" -> "PasswordRequiredException"
    [] kind = "unreadable" -> "PermissionError"
    [] OTHER -> "SSHException"

\* ssh.py 66-97: _can_load_key for a file of the given kind, from the k-th key
\* type on. A type that parses gives True, one that asks for a passphrase
\* False, one that is rejected with SSHException passes on to the next type;
\* any other exception is caught by the outer handler and gives False.
RECURSIVE CanLoadFrom(_, _)
CanLoadFrom(kind, k) ==
  IF k > Len(KeyTypes) THEN FALSE
  ELSE LET r == FromPrivateKeyFile(KeyTypes[k], kind)
       IN IF r = "ok" THEN TRUE
          ELSE IF r = "PasswordRequiredException" THEN FALSE
          ELSE IF r = "SSHException" THEN CanLoadFrom(kind, k + 1)
          ELSE FALSE

CanLoadKey(key_path) == CanLoadFrom(files[key_path], 1)

\* The first path that exists is taken, whether or not its key can be loaded.
RECURSIVE FirstExistingFrom(_)
FirstExistingFrom(k) ==
  IF k > Len(key_paths) THEN None
  ELSE IF files[key_paths[k]] /= "absent" THEN Some(key_paths[k])
  ELSE FirstExistingFrom(k + 1)

\* ssh.py 24-31: the first of the default paths, from the k-th on, that exists
\* and whose key can be loaded without a password; None stands for the
\* FileNotFoundError of line 31.
RECURSIVE GetSshKeyPathFrom(_)
GetSshKeyPathFrom(k) ==
  IF k > Len(key_paths) THEN None
  ELSE IF files[key_paths[k]] /= "absent" /\ CanLoadKey(key_paths[k]) THEN Some(key_paths[k])
  ELSE GetSshKeyPathFrom(k + 1)

\* ssh.py 33-56: _load_key from the k-th key type on. SSHException, of which
\* PasswordRequiredException is a subclass, passes on to the next type; any
\* other exception leaves the function; when no type is left, ValueError.
\* by names the call that loads: every load makes a key object of its own.
RECURSIVE LoadKeyFrom(_, _, _)
LoadKeyFrom(key_path, k, by) ==
  IF k > Len(KeyTypes)
  THEN [pkey |-> None, raised |-> Some("Could not load key from " \o key_path)]
  ELSE LET r == FromPrivateKeyFile(KeyTypes[k], files[key_path])
       IN IF r = "ok"
          THEN [pkey |-> Some([path |-> key_path, type |-> KeyTypes[k], by |-> by]),
                raised |-> None]
          ELSE IF r \in {"SSHException", "PasswordRequiredException"}
               THEN LoadKeyFrom(key_path, k + 1, by)
               ELSE [pkey |-> None, raised |-> Some(r)]

LoadKey(key_path, by) == LoadKeyFrom(key_path, 1, by)

\* SSHService.__init__ (no tunnel, the lock free, no key cached), no call in
\* flight, no instance destroyed.
InitServices ==
  /\ ssh_service = [tunnels |-> <<>>, lock |-> 0, cached_key |-> None, cached_key_path |-> None]
  /\ forwarders = <<>>
  /\ threads = <<>>
  /\ provider = [destroyed |-> {}]

Init ==
  /\ training_jobs = {}
  /\ job = <<>>
  /\ drive = <<>>
  /\ calls = 0
  /\ rewritten = {}
  /\ response = None
  /\ InitServices
  /\ search = None
  /\ launch = None
  /\ files = VastKey

\* ------------------------------------------------------------ the handlers
\* The ids a request may name: those create_job can have given out, whether
\* or not a job is registered under them.
JobIds == 1..MaxCalls

\* What a handler answers: the status code of its return (200) or of the
\* HTTPException it raises.
Response(op, job_id, status_code) == [op |-> op, job_id |-> job_id, status_code |-> status_code]

\* lines 265-266, 272-273, 292-293, 314-315: an id that is not in the registry
\* is answered 404 before anything is read or written.
NotFound(op, j) ==
  /\ j \notin training_jobs
  /\ calls' = calls + 1
  /\ response' = Response(op, j, 404)
  /\ UNCHANGED <<training_jobs, job, drive, rewritten>>

\* create_job: a fresh id, the initial record, and a scheduled driver.
create_job(steps) ==
  /\ calls < MaxCalls
  /\ EventLoopFree
  /\ job' = Append(job,
       [status |-> "pending", current_step |-> 0, error |-> None,
        started_at |-> None, completed_at |-> None, gcs_path |-> None,
        steps |-> steps])
  /\ training_jobs' = training_jobs \cup {Len(job) + 1}
  /\ drive' = Append(drive, NewDrive(Len(job) + 1))
  /\ calls' = calls + 1
  /\ response' = Response("create_job", Len(job) + 1, 200)
  /\ UNCHANGED rewritten
  /\ UNCHANGED services

\* get_job: the record registered under the id is returned as it is.
get_job(j) ==
  /\ calls < MaxCalls
  /\ \/ NotFound("get_job", j)
     \/ /\ j \in training_jobs
        /\ calls' = calls + 1
        /\ response' = Response("get_job", j, 200)
        /\ UNCHANGED <<training_jobs, job, drive, rewritten>>
  /\ UNCHANGED services

\* delete_job: the id leaves the registry; a running driver keeps the dict.
delete_job(j) ==
  /\ calls < MaxCalls
  /\ \/ NotFound("delete_job", j)
     \/ /\ j \in training_jobs
        /\ training_jobs' = training_jobs \ {j}
        /\ calls' = calls + 1
        /\ response' = Response("delete_job", j, 200)
        /\ UNCHANGED <<job, drive, rewritten>>
  /\ UNCHANGED services

\* update_job (PATCH): each field given is written; a status is written as
\* given, "running" stamps started_at once, a terminal one stamps completed_at.
update_job(j, update) ==
  /\ calls < MaxCalls
  /\ \/ NotFound("update_job", j)
     \/ /\ j \in training_jobs
        /\ LET truthy(f) == f /= None /\ f[1] /= ""
               j1 == IF truthy(update.status)
                     THEN [job[j] EXCEPT
                             !.status = update.status[1],
                             !.started_at = IF update.status[1] = "running" /\ @ = None
                                            THEN utcnow ELSE @,
                             !.completed_at = IF update.status[1] \in {"completed", "failed"}
                                              THEN utcnow ELSE @]
                     ELSE job[j]
               j2 == IF update.current_step /= None
                     THEN [j1 EXCEPT !.current_step = update.current_step[1]] ELSE j1
               j3 == IF truthy(update.error) THEN [j2 EXCEPT !.error = update.error] ELSE j2
           IN job' = [job EXCEPT ![j] = j3]
        /\ calls' = calls + 1
        /\ response' = Response("update_job", j, 200)
        /\ rewritten' = rewritten \cup {j}
        /\ UNCHANGED <<training_jobs, drive>>
  /\ UNCHANGED services

\* A job that is running is reset and driven again like any other.
start_job_unguarded(j) ==
  /\ calls < MaxCalls
  /\ EventLoopFree
  /\ \/ NotFound("start_job", j)
     \/ /\ j \in training_jobs
        /\ calls' = calls + 1
        /\ job' = [job EXCEPT ![j].status = "pending", ![j].current_step = 0,
                              ![j].error = None, ![j].started_at = None,
                              ![j].completed_at = None]
        /\ drive' = Append(drive, [NewDrive(j) EXCEPT !.prior = Some(job[j].status)])
        /\ rewritten' = rewritten \cup {j}
        /\ response' = Response("start_job", j, 200)
        /\ UNCHANGED training_jobs
  /\ UNCHANGED services

\* start_job: refused with 400 while status is "running"; otherwise the record
\* is reset and a new driver is scheduled for it.
start_job(j) ==
  /\ calls < MaxCalls
  /\ EventLoopFree
  /\ \/ NotFound("start_job", j)
     \/ /\ j \in training_jobs
        /\ calls' = calls + 1
        /\ IF job[j].status = "running"
           THEN /\ response' = Response("start_job", j, 400)
                /\ UNCHANGED <<training_jobs, job, drive, rewritten>>
           ELSE /\ job' = [job EXCEPT ![j].status = "pending", ![j].current_step = 0,
                                      ![j].error = None, ![j].started_at = None,
                                      ![j].completed_at = None]
                /\ drive' = Append(drive, [NewDrive(j) EXCEPT !.prior = Some(job[j].status)])
                /\ rewritten' = rewritten \cup {j}
                /\ response' = Response("start_job", j, 200)
                /\ UNCHANGED training_jobs
  /\ UNCHANGED services

\* -------------------------------------------------------------- the driver
At(d, pc) == d \in DOMAIN drive /\ drive[d].pc = pc

Goto(d, pc) == drive' = [drive EXCEPT ![d].pc = pc]

\* vast_service.get_instance answers: it raises, finds nothing, or returns
\* the instance record.
Instances == [cur_state : {"running", "loading"}, ssh_host : {None, Some("ssh4.vast.ai")},
              ssh_port : {None, Some(22)}]

\* The message start_training fails with for an instance, None when it is fit.
NotReady(instance) ==
  IF instance.cur_state /= "running" THEN Some("Instance not ready: " \o instance.cur_state)
  ELSE IF instance.ssh_host = None \/ instance.ssh_port = None
       THEN Some("Instance SSH not available yet")
       ELSE None

\* start_training up to its first write: the lookup and the three checks.
start_training(d) ==
  /\ At(d, "start_training")
  /\ \/ \E m \in ExcMsgs : drive' = [drive EXCEPT ![d].pc = "pf_status", ![d].e = Some(m)]
     \/ drive' = [drive EXCEPT ![d].pc = "pf_status", ![d].e = Some("Instance not found")]
     \/ \E instance \in Instances :
          IF NotReady(instance) /= None
          THEN drive' = [drive EXCEPT ![d].pc = "pf_status", ![d].e = NotReady(instance)]
          ELSE Goto(d, "set_running")
  /\ UNCHANGED <<training_jobs, job, calls, rewritten, response>>
  /\ UNCHANGED services

\* job["status"] = "failed" of a pre-flight failure (lines 188, 195, 205, 221).
pf_status(d) ==
  /\ At(d, "pf_status")
  /\ job' = [job EXCEPT ![drive[d].job].status = "failed"]
  /\ Goto(d, "pf_error")
  /\ UNCHANGED <<training_jobs, calls, rewritten, response>>
  /\ UNCHANGED services

\* The pre-flight failure returns without recording its message.
pf_error_dropped(d) ==
  /\ At(d, "pf_error")
  /\ Goto(d, "pf_return")
  /\ UNCHANGED <<training_jobs, job, calls, rewritten, response>>
  /\ UNCHANGED services

\* job["error"] = ... of a pre-flight failure (lines 189, 196, 206, 222);
\* start_training returns without starting a thread.
pf_error(d) ==
  /\ At(d, "pf_error")
  /\ job' = [job EXCEPT ![drive[d].job].error = drive[d].e]
  /\ Goto(d, "pf_return")
  /\ UNCHANGED <<training_jobs, calls, rewritten, response>>
  /\ UNCHANGED services

\* An exception leaves the try block of run_training_thread: the handler at
\* line 171 takes over with the message of the exception.
Raise(d, phase, outcome, m) ==
  drive' = [drive EXCEPT ![d].pc = "exc_status", ![d].e = Some(m), ![d].res[phase] = outcome]

\* The phase returned: its outcome is kept, the driver goes on.
Return(d, phase, outcome, pc) ==
  drive' = [drive EXCEPT ![d].pc = pc, ![d].res[phase] = outcome]

\* line 49: job["status"] = "running"
set_running(d) ==
  /\ At(d, "set_running")
  /\ job' = [job EXCEPT ![drive[d].job].status = "running"]
  /\ Goto(d, "set_started")
  /\ UNCHANGED <<training_jobs, calls, rewritten, response>>
  /\ UNCHANGED services

\* line 50: job["started_at"] = datetime.utcnow().isoformat()
set_started(d) ==
  /\ At(d, "set_started")
  /\ job' = [job EXCEPT ![drive[d].job].started_at = utcnow]
  /\ Goto(d, "setup")
  /\ UNCHANGED <<training_jobs, calls, rewritten, response>>
  /\ UNCHANGED services

\* The setup exit code is only logged, as the install phase logs its own.
setup_unchecked(d) ==
  /\ At(d, "setup")
  /\ \/ Return(d, "setup", "ok", "deps")
     \/ Return(d, "setup", "rc", "deps")
     \/ \E m \in ExcMsgs : Raise(d, "setup", "raise", m)
  /\ UNCHANGED <<training_jobs, job, calls, rewritten, response>>
  /\ UNCHANGED services

\* lines 59-64: the workspace setup command; a non-zero exit code raises.
setup(d) ==
  /\ At(d, "setup")
  /\ \/ Return(d, "setup", "ok", "deps")
     \/ \E stderr \in Stderrs : Raise(d, "setup", "rc", "Setup failed: " \o stderr)
     \/ \E m \in ExcMsgs : Raise(d, "setup", "raise", m)
  /\ UNCHANGED <<training_jobs, job, calls, rewritten, response>>
  /\ UNCHANGED services

\* The install exit code is checked, as the setup phase checks its own.
deps_fatal(d) ==
  /\ At(d, "deps")
  /\ \/ Return(d, "deps", "ok", "step10")
     \/ \E stderr \in Stderrs : Raise(d, "deps", "rc", "Dependencies failed: " \o stderr)
     \/ \E m \in ExcMsgs : Raise(d, "deps", "raise", m)
  /\ UNCHANGED <<training_jobs, job, calls, rewritten, response>>
  /\ UNCHANGED services

\* lines 74-77: the dependency install command; its exit code is only logged.
deps(d) ==
  /\ At(d, "deps")
  /\ \/ Return(d, "deps", "ok", "step10")
     \/ Return(d, "deps", "rc", "step10")
     \/ \E m \in ExcMsgs : Raise(d, "deps", "raise", m)
  /\ UNCHANGED <<training_jobs, job, calls, rewritten, response>>
  /\ UNCHANGED services

\* The driver goes from the dataset step straight to the upload stage: the
\* training command is never started.
step10_skips_training(d) ==
  /\ At(d, "step10")
  /\ job' = [job EXCEPT ![drive[d].job].current_step = 10]
  /\ Goto(d, "set_uploading")
  /\ UNCHANGED <<training_jobs, calls, rewritten, response>>
  /\ UNCHANGED services

\* line 80: job["current_step"] = 10
step10(d) ==
  /\ At(d, "step10")
  /\ job' = [job EXCEPT ![drive[d].job].current_step = 10]
  /\ Goto(d, "exec_async")
  /\ UNCHANGED <<training_jobs, calls, rewritten, response>>
  /\ UNCHANGED services

\* line 101, ssh.py 145-165: exec_command_async connects and starts the command.
\* It returns the open client and a stream that will carry n more lines, or
\* raises before the connection is up, or raises from client.exec_command
\* with the connection up and never returned.
exec_command_async(d) ==
  /\ At(d, "exec_async")
  /\ \/ \E n \in 0..MaxLines :
          drive' = [drive EXCEPT ![d].pc = "read", ![d].client = "open",
                                 ![d].stdout_stream = n, ![d].res["train"] = "ok"]
     \/ \E m \in ExcMsgs : Raise(d, "train", "raise", m)
     \/ \E m \in ExcMsgs :
          drive' = [drive EXCEPT ![d].pc = "exc_status", ![d].e = Some(m),
                                 ![d].client = "open", ![d].res["train"] = "raise"]
  /\ UNCHANGED <<training_jobs, job, calls, rewritten, response>>
  /\ UNCHANGED services

\* A read that raises leaves the loop without the finally clause: the client
\* stays open.
read_line_unclosed(d, lines) ==
  /\ At(d, "read")
  /\ \/ /\ drive[d].stdout_stream > 0
        /\ \E line \in lines :
             drive' = [drive EXCEPT ![d].pc = "parse", ![d].line = line,
                                    ![d].stdout_stream = @ - 1]
     \/ /\ drive[d].stdout_stream = 0
        /\ Goto(d, "close")
     \/ \E m \in ExcMsgs :
          drive' = [drive EXCEPT ![d].pc = "exc_status", ![d].e = Some(m), ![d].stdout_stream = 0,
                                 ![d].res["train"] = "raise"]
  /\ UNCHANGED <<training_jobs, job, calls, rewritten, response>>
  /\ UNCHANGED services

\* The stream never runs out: the for statement always finds another line,
\* unless the read raises.
read_line_endless(d, lines) ==
  /\ At(d, "read")
  /\ \/ \E line \in lines :
          drive' = [drive EXCEPT ![d].pc = "parse", ![d].line = line]
     \/ \E m \in ExcMsgs :
          drive' = [drive EXCEPT ![d].pc = "close", ![d].e = Some(m), ![d].stdout_stream = 0,
                                 ![d].res["train"] = "raise"]
  /\ UNCHANGED <<training_jobs, job, calls, rewritten, response>>
  /\ UNCHANGED services

\* lines 106-108: the for statement takes the next line of the stream, finds
\* the stream exhausted, or the read raises; the last two enter the finally.
read_line(d, lines) ==
  /\ At(d, "read")
  /\ \/ /\ drive[d].stdout_stream > 0
        /\ \E line \in lines :
             drive' = [drive EXCEPT ![d].pc = "parse", ![d].line = line,
                                    ![d].stdout_stream = @ - 1]
     \/ /\ drive[d].stdout_stream = 0
        /\ Goto(d, "close")
     \/ \E m \in ExcMsgs :
          drive' = [drive EXCEPT ![d].pc = "close", ![d].e = Some(m), ![d].stdout_stream = 0,
                                 ![d].res["train"] = "raise"]
  /\ UNCHANGED <<training_jobs, job, calls, rewritten, response>>
  /\ UNCHANGED services

\* lines 112-116: a matched line overwrites current_step, any other leaves it.
parse_line(d) ==
  /\ At(d, "parse")
  /\ LET match == MatchStep(drive[d].line)
     IN IF match /= None
        THEN job' = [job EXCEPT ![drive[d].job].current_step = match[1]]
        ELSE UNCHANGED job
  /\ drive' = [drive EXCEPT ![d].pc = "read", ![d].line = <<>>]
  /\ UNCHANGED <<training_jobs, calls, rewritten, response>>
  /\ UNCHANGED services

\* The driver goes from the stream to the artifact check without line 124.
close_skips_uploading(d) ==
  /\ At(d, "close")
  /\ drive' = [drive EXCEPT ![d].client = "closed",
                            ![d].pc = IF drive[d].e = None THEN "check" ELSE "exc_status"]
  /\ UNCHANGED <<training_jobs, job, calls, rewritten, response>>
  /\ UNCHANGED services

\* lines 118-120: finally: client.close(); a pending exception goes on to the
\* handler at line 171.
close(d) ==
  /\ At(d, "close")
  /\ drive' = [drive EXCEPT ![d].client = "closed",
                            ![d].pc = IF drive[d].e = None THEN "set_uploading" ELSE "exc_status"]
  /\ UNCHANGED <<training_jobs, job, calls, rewritten, response>>
  /\ UNCHANGED services

\* line 124: job["status"] = "uploading"
set_uploading(d) ==
  /\ At(d, "set_uploading")
  /\ job' = [job EXCEPT ![drive[d].job].status = "uploading"]
  /\ Goto(d, "check")
  /\ UNCHANGED <<training_jobs, calls, rewritten, response>>
  /\ UNCHANGED services

\* lines 134-138, 162-163: ls on the artifact; a non-zero exit code is logged
\* and the driver goes on to line 165.
check(d) ==
  /\ At(d, "check")
  /\ \/ Return(d, "check", "ok", "download")
     \/ Return(d, "check", "rc", "set_completed")
     \/ \E m \in ExcMsgs : Raise(d, "check", "raise", m)
  /\ UNCHANGED <<training_jobs, job, calls, rewritten, response>>
  /\ UNCHANGED services

\* lines 140-143, 160-161: base64 of the artifact; a non-zero exit code or an
\* empty stdout is logged and the driver goes on to line 165.
download(d) ==
  /\ At(d, "download")
  /\ \/ Return(d, "download", "ok", "upload")
     \/ Return(d, "download", "rc", "set_completed")
     \/ Return(d, "download", "empty", "set_completed")
     \/ \E m \in ExcMsgs : Raise(d, "download", "raise", m)
  /\ UNCHANGED <<training_jobs, job, calls, rewritten, response>>
  /\ UNCHANGED services

\* lines 145-157: b64decode into a temporary file, gcs_service.upload_file,
\* os.unlink; b64decode and upload_file raise on failure.
upload(d) ==
  /\ At(d, "upload")
  /\ \/ Return(d, "upload", "ok", "set_gcs_path")
     \/ Raise(d, "upload", "decode", "Incorrect padding")
     \/ \E m \in ExcMsgs : Raise(d, "upload", "raise", m)
  /\ UNCHANGED <<training_jobs, job, calls, rewritten, response>>
  /\ UNCHANGED services

\* line 159: job["gcs_path"] = gcs_path
set_gcs_path(d) ==
  /\ At(d, "set_gcs_path")
  /\ job' = [job EXCEPT ![drive[d].job].gcs_path = Some("loras/name.safetensors")]
  /\ Goto(d, "set_completed")
  /\ UNCHANGED <<training_jobs, calls, rewritten, response>>
  /\ UNCHANGED services

\* line 166: job["status"] = "completed"
set_completed(d) ==
  /\ At(d, "set_completed")
  /\ job' = [job EXCEPT ![drive[d].job].status = "completed"]
  /\ Goto(d, "set_current_step")
  /\ UNCHANGED <<training_jobs, calls, rewritten, response>>
  /\ UNCHANGED services

\* Completion leaves current_step where the stream left it.
set_current_step_kept(d) ==
  /\ At(d, "set_current_step")
  /\ Goto(d, "set_completed_at")
  /\ UNCHANGED <<training_jobs, job, calls, rewritten, response>>
  /\ UNCHANGED services

\* line 167: job["current_step"] = job["steps"]
set_current_step(d) ==
  /\ At(d, "set_current_step")
  /\ job' = [job EXCEPT ![drive[d].job].current_step = job[drive[d].job].steps]
  /\ Goto(d, "set_completed_at")
  /\ UNCHANGED <<training_jobs, calls, rewritten, response>>
  /\ UNCHANGED services

\* line 168: job["completed_at"] = datetime.utcnow().isoformat()
set_completed_at(d) ==
  /\ At(d, "set_completed_at")
  /\ job' = [job EXCEPT ![drive[d].job].completed_at = utcnow]
  /\ Goto(d, "done")
  /\ UNCHANGED <<training_jobs, calls, rewritten, response>>
  /\ UNCHANGED services

\* The handler puts the job back to "pending" for a later retry.
exc_status_pending(d) ==
  /\ At(d, "exc_status")
  /\ job' = [job EXCEPT ![drive[d].job].status = "pending"]
  /\ Goto(d, "exc_error")
  /\ UNCHANGED <<training_jobs, calls, rewritten, response>>
  /\ UNCHANGED services

\* line 173: job["status"] = "failed"
exc_status(d) ==
  /\ At(d, "exc_status")
  /\ job' = [job EXCEPT ![drive[d].job].status = "failed"]
  /\ Goto(d, "exc_error")
  /\ UNCHANGED <<training_jobs, calls, rewritten, response>>
  /\ UNCHANGED services

\* The handler records the message in every job of the registry.
exc_error_shared(d) ==
  /\ At(d, "exc_error")
  /\ job' = [k \in DOMAIN job |-> [job[k] EXCEPT !.error = drive[d].e]]
  /\ Goto(d, "exc_completed_at")
  /\ UNCHANGED <<training_jobs, calls, rewritten, response>>
  /\ UNCHANGED services

\* line 174: job["error"] = str(e)
exc_error(d) ==
  /\ At(d, "exc_error")
  /\ job' = [job EXCEPT ![drive[d].job].error = drive[d].e]
  /\ Goto(d, "exc_completed_at")
  /\ UNCHANGED <<training_jobs, calls, rewritten, response>>
  /\ UNCHANGED services

\* line 175: job["completed_at"] = datetime.utcnow().isoformat()
exc_completed_at(d) ==
  /\ At(d, "exc_completed_at")
  /\ job' = [job EXCEPT ![drive[d].job].completed_at = utcnow]
  /\ Goto(d, "done")
  /\ UNCHANGED <<training_jobs, calls, rewritten, response>>
  /\ UNCHANGED services

\* The drivers and the handlers that leave a driven record alone: every job is
\* written by its own driver only.
NextDrive ==
  \/ \E steps \in StepsChoices : create_job(steps)
  \/ \E j \in JobIds : get_job(j)
  \/ \E j \in JobIds : delete_job(j)
  \/ \E d \in DOMAIN drive : start_training(d)
  \/ \E d \in DOMAIN drive : pf_status(d)
  \/ \E d \in DOMAIN drive : pf_error(d)
  \/ \E d \in DOMAIN drive : set_running(d)
  \/ \E d \in DOMAIN drive : set_started(d)
  \/ \E d \in DOMAIN drive : setup(d)
  \/ \E d \in DOMAIN drive : deps(d)
  \/ \E d \in DOMAIN drive : step10(d)
  \/ \E d \in DOMAIN drive : exec_command_async(d)
  \/ \E d \in DOMAIN drive : read_line(d, StreamLines)
  \/ \E d \in DOMAIN drive : parse_line(d)
  \/ \E d \in DOMAIN drive : close(d)
  \/ \E d \in DOMAIN drive : set_uploading(d)
  \/ \E d \in DOMAIN drive : check(d)
  \/ \E d \in DOMAIN drive : download(d)
  \/ \E d \in DOMAIN drive : upload(d)
  \/ \E d \in DOMAIN drive : set_gcs_path(d)
  \/ \E d \in DOMAIN drive : set_completed(d)
  \/ \E d \in DOMAIN drive : set_current_step(d)
  \/ \E d \in DOMAIN drive : set_completed_at(d)
  \/ \E d \in DOMAIN drive : exc_status(d)
  \/ \E d \in DOMAIN drive : exc_error(d)
  \/ \E d \in DOMAIN drive : exc_completed_at(d)

SpecDrive == Init /\ [][NextDrive]_vars

\* One step of driver d, whichever statement it is at.
DriveStep(d) ==
  \/ start_training(d)
  \/ pf_status(d)
  \/ pf_error(d)
  \/ set_running(d)
  \/ set_started(d)
  \/ setup(d)
  \/ deps(d)
  \/ step10(d)
  \/ exec_command_async(d)
  \/ read_line(d, StreamLines)
  \/ parse_line(d)
  \/ close(d)
  \/ set_uploading(d)
  \/ check(d)
  \/ download(d)
  \/ upload(d)
  \/ set_gcs_path(d)
  \/ set_completed(d)
  \/ set_current_step(d)
  \/ set_completed_at(d)
  \/ exc_status(d)
  \/ exc_error(d)
  \/ exc_completed_at(d)

\* The drivers under a fair scheduler: the event loop runs every scheduled
\* start_training, the interpreter runs every started thread, every remote
\* call returns or raises, and a stream of at most MaxLines lines ends.
SpecDriveFair ==
  Init /\ [][NextDrive]_vars /\ \A d \in 1..MaxCalls : WF_vars(DriveStep(d))

\* The read loop alone, over every line of the alphabet: one job whose driver
\* has just been handed the stream by exec_command_async.
InitParse ==
  /\ training_jobs = {1}
  /\ job = <<[status |-> "running", current_step |-> 10, error |-> None,
              started_at |-> utcnow, completed_at |-> None, gcs_path |-> None,
              steps |-> 12]>>
  /\ drive = <<[NewDrive(1) EXCEPT !.pc = "read", !.client = "open",
                                   !.stdout_stream = MaxLines,
                                   !.res = [p \in Phases |->
                                             IF p \in {"setup", "deps", "train"} THEN "ok" ELSE "-"]]>>
  /\ calls = 1
  /\ rewritten = {}
  /\ response = Response("create_job", 1, 200)
  /\ InitServices
  /\ search = None
  /\ launch = None
  /\ files = VastKey

NextParse ==
  \/ \E d \in DOMAIN drive : read_line(d, Lines)
  \/ \E d \in DOMAIN drive : parse_line(d)

SpecParse == InitParse /\ [][NextParse]_vars

\* The whole job orchestrator: the drivers and all the handlers that write.
Next ==
  \/ NextDrive
  \/ \E j \in JobIds, update \in TrainingJobUpdate : update_job(j, update)
  \/ \E j \in JobIds : start_job(j)

Spec == Init /\ [][Next]_vars

\* ------------------------------------------------------ the tunnel registry
\* Calls served, each on a thread of its own, in one behaviour.
MaxRequests == 2

InstanceIds == {1, 2}
LocalPorts == {8188, 8189}
KeyPaths == {None, Some("~/.ssh/custom")}

\* The calls: the handlers create_tunnel, close_tunnel and destroy_instance of
\* api/instances.py, SSHService.get_tunnel_port, and SSHService.exec_command
\* as a driver thread calls it.
Ops == {"create_tunnel", "close_tunnel", "get_tunnel_port", "destroy_instance", "exec_command"}

\* A call just received. result is what it returns, raised the message of the
\* exception it ends with; f is the forwarder it has constructed, before the
\* tunnels dict as it was when the call took the lock; status_code is the
\* marketplace's answer to a destroy call (0 before it has answered) and
\* success what vast_service.destroy_instance returned for it; key_path and
\* pkey are the locals of the call's key lookup, probed tells that the call
\* has gone through the default paths; client is the SSHClient of an
\* exec_command call.
NewThread(op, instance_id, local_port, ssh_key_path) ==
  [op |-> op, instance_id |-> instance_id, local_port |-> local_port,
   ssh_key_path |-> ssh_key_path,
   pc |-> CASE op = "create_tunnel" -> "get_instance"
            [] op = "exec_command" -> "get_pkey"
            [] OTHER -> "lock",
   result |-> None, raised |-> None, f |-> 0, before |-> <<>>,
   status_code |-> 0, success |-> None,
   key_path |-> None, pkey |-> None, probed |-> FALSE,
   client |-> IF op = "exec_command" THEN "new" ELSE "none"]

Pc(t, pc) == t \in DOMAIN threads /\ threads[t].pc = pc

\* A request arrives and its handler is started.
request(op, instance_id, local_port, ssh_key_path) ==
  /\ Len(threads) < MaxRequests
  /\ threads' = Append(threads, NewThread(op, instance_id, local_port, ssh_key_path))
  /\ UNCHANGED <<ssh_service, forwarders, provider, search, launch, files>>
  /\ UNCHANGED orchestrator

\* instances.py 83-91: the handler looks the instance up before it calls
\* ssh_service.create_tunnel; an instance the marketplace has destroyed is not
\* listed any more.
get_instance(t) ==
  /\ Pc(t, "get_instance")
  /\ IF threads[t].instance_id \in provider.destroyed
     THEN threads' = [threads EXCEPT ![t].pc = "done", ![t].raised = Some("404 Instance not found")]
     ELSE threads' = [threads EXCEPT ![t].pc = "lock"]
  /\ UNCHANGED <<ssh_service, forwarders, provider, search, launch, files>>
  /\ UNCHANGED orchestrator

\* The lock is entered whoever holds it.
acquire_unguarded(t) ==
  /\ Pc(t, "lock")
  /\ ssh_service' = [ssh_service EXCEPT !.lock = t]
  /\ threads' = [threads EXCEPT ![t].pc = "locked", ![t].before = ssh_service.tunnels]
  /\ UNCHANGED <<forwarders, provider, search, launch, files>>
  /\ UNCHANGED orchestrator

\* ssh.py 182, 228, 235: with self.lock, entered when no thread holds it.
acquire(t) ==
  /\ Pc(t, "lock")
  /\ ssh_service.lock = 0
  /\ ssh_service' = [ssh_service EXCEPT !.lock = t]
  /\ threads' = [threads EXCEPT ![t].pc = "locked", ![t].before = ssh_service.tunnels]
  /\ UNCHANGED <<forwarders, provider, search, launch, files>>
  /\ UNCHANGED orchestrator

\* The existence check is left out: every call goes on to establish a forward.
create_tunnel_unchecked(t) ==
  /\ Pc(t, "locked")
  /\ threads[t].op = "create_tunnel"
  /\ threads' = [threads EXCEPT ![t].pc = "pkey"]
  /\ UNCHANGED <<ssh_service, forwarders, provider, search, launch, files>>
  /\ UNCHANGED orchestrator

\* ssh.py 183-185: a tunnel registered for the instance is returned as it is.
create_tunnel(t) ==
  /\ Pc(t, "locked")
  /\ threads[t].op = "create_tunnel"
  /\ IF threads[t].instance_id \in DOMAIN ssh_service.tunnels
     THEN threads' = [threads EXCEPT
            ![t].pc = "unlock",
            ![t].result = Some(forwarders[ssh_service.tunnels[threads[t].instance_id]].local_bind_port)]
     ELSE threads' = [threads EXCEPT ![t].pc = "pkey"]
  /\ UNCHANGED <<ssh_service, forwarders, provider, search, launch, files>>
  /\ UNCHANGED orchestrator

\* Where a call goes on when its key lookup has given a key, and when it raised.
AfterPkey(t) == IF threads[t].op = "exec_command" THEN "connect" ELSE "start"
AfterRaise(t) == IF threads[t].op = "exec_command" THEN "finally" ELSE "unlock"

\* ssh.py 189-203: the key of a create_tunnel call. An override path that
\* exists is loaded by _load_key, whose exception leaves create_tunnel;
\* without an override, or with one that does not exist, _get_pkey is called.
load_key(t) ==
  /\ Pc(t, "pkey")
  /\ IF threads[t].ssh_key_path /= None /\ files[threads[t].ssh_key_path[1]] /= "absent"
     THEN LET r == LoadKey(threads[t].ssh_key_path[1], t)
          IN IF r.raised = None
             THEN threads' = [threads EXCEPT ![t].pc = "start", ![t].pkey = r.pkey,
                                             ![t].key_path = threads[t].ssh_key_path]
             ELSE threads' = [threads EXCEPT ![t].pc = "unlock", ![t].raised = r.raised]
     ELSE threads' = [threads EXCEPT ![t].pc = "get_pkey"]
  /\ UNCHANGED <<ssh_service, forwarders, provider, search, launch, files>>
  /\ UNCHANGED orchestrator

\* ssh.py 60, 64: _get_pkey, called by exec_command, exec_command_async,
\* connect and create_tunnel: a cached key is returned as it is, otherwise the
\* default paths are gone through.
get_pkey(t) ==
  /\ Pc(t, "get_pkey")
  /\ IF ssh_service.cached_key = None
     THEN threads' = [threads EXCEPT ![t].pc = "key_path"]
     ELSE threads' = [threads EXCEPT ![t].pc = AfterPkey(t),
                                     ![t].pkey = ssh_service.cached_key,
                                     ![t].key_path = ssh_service.cached_key_path]
  /\ UNCHANGED <<ssh_service, forwarders, provider, search, launch, files>>
  /\ UNCHANGED orchestrator

\* ssh.py 61, 15-31: key_path = self._get_ssh_key_path()
get_ssh_key_path(t) ==
  /\ Pc(t, "key_path")
  /\ LET key_path == GetSshKeyPathFrom(1)
     IN IF key_path = None
        THEN threads' = [threads EXCEPT ![t].pc = AfterRaise(t), ![t].probed = TRUE,
                                        ![t].raised = Some("No unencrypted SSH key found")]
        ELSE threads' = [threads EXCEPT ![t].pc = "load", ![t].probed = TRUE,
                                        ![t].key_path = key_path]
  /\ UNCHANGED <<ssh_service, forwarders, provider, search, launch, files>>
  /\ UNCHANGED orchestrator

\* ssh.py 62, 33-56: self._load_key(key_path), the right-hand side of the
\* assignment.
load_default_key(t) ==
  /\ Pc(t, "load")
  /\ LET r == LoadKey(threads[t].key_path[1], t)
     IN IF r.raised = None
        THEN threads' = [threads EXCEPT ![t].pc = "cache_key", ![t].pkey = r.pkey]
        ELSE threads' = [threads EXCEPT ![t].pc = AfterRaise(t), ![t].raised = r.raised]
  /\ UNCHANGED <<ssh_service, forwarders, provider, search, launch, files>>
  /\ UNCHANGED orchestrator

\* ssh.py 62: self._cached_key = ...
cache_key(t) ==
  /\ Pc(t, "cache_key")
  /\ ssh_service' = [ssh_service EXCEPT !.cached_key = threads[t].pkey]
  /\ threads' = [threads EXCEPT ![t].pc = "cache_path"]
  /\ UNCHANGED <<forwarders, provider, search, launch, files>>
  /\ UNCHANGED orchestrator

\* ssh.py 63-64: self._cached_key_path = key_path; return self._cached_key
cache_key_path(t) ==
  /\ Pc(t, "cache_path")
  /\ ssh_service' = [ssh_service EXCEPT !.cached_key_path = threads[t].key_path]
  /\ threads' = [threads EXCEPT ![t].pc = AfterPkey(t), ![t].pkey = ssh_service.cached_key]
  /\ UNCHANGED <<forwarders, provider, search, launch, files>>
  /\ UNCHANGED orchestrator

\* The local port is bound by a live forwarder, or the instance is gone: the
\* forward cannot be started.
CannotStart(t) ==
  \/ \E f \in DOMAIN forwarders :
       forwarders[f].alive /\ forwarders[f].local_bind_port = threads[t].local_port
  \/ threads[t].instance_id \in provider.destroyed

\* A forward that fails to start leaves its entry in the registry.
tunnel_start_partial(t) ==
  /\ Pc(t, "start")
  /\ \/ /\ ~CannotStart(t)
        /\ forwarders' = Append(forwarders,
             [instance_id |-> threads[t].instance_id,
              local_bind_port |-> threads[t].local_port, alive |-> TRUE])
        /\ threads' = [threads EXCEPT ![t].pc = "register", ![t].f = Len(forwarders) + 1]
        /\ UNCHANGED ssh_service
     \/ /\ forwarders' = Append(forwarders,
             [instance_id |-> threads[t].instance_id,
              local_bind_port |-> threads[t].local_port, alive |-> FALSE])
        /\ ssh_service' = [ssh_service EXCEPT !.tunnels =
             [i \in DOMAIN @ \cup {threads[t].instance_id} |->
                IF i = threads[t].instance_id THEN Len(forwarders) + 1 ELSE @[i]]]
        /\ threads' = [threads EXCEPT ![t].pc = "unlock", ![t].f = Len(forwarders) + 1,
                                      ![t].raised = Some("Could not establish session to SSH gateway")]
  /\ UNCHANGED <<provider, search, launch, files>>
  /\ UNCHANGED orchestrator

\* ssh.py 207-218, 222-224: the forwarder is constructed and started. It starts
\* only when the local port is free and the instance is there; a failure is
\* logged and raised again, with nothing registered.
tunnel_start(t) ==
  /\ Pc(t, "start")
  /\ \/ /\ ~CannotStart(t)
        /\ forwarders' = Append(forwarders,
             [instance_id |-> threads[t].instance_id,
              local_bind_port |-> threads[t].local_port, alive |-> TRUE])
        /\ threads' = [threads EXCEPT ![t].pc = "register", ![t].f = Len(forwarders) + 1]
     \/ /\ forwarders' = Append(forwarders,
             [instance_id |-> threads[t].instance_id,
              local_bind_port |-> threads[t].local_port, alive |-> FALSE])
        /\ threads' = [threads EXCEPT ![t].pc = "unlock", ![t].f = Len(forwarders) + 1,
                                      ![t].raised = Some("Could not establish session to SSH gateway")]
  /\ UNCHANGED <<ssh_service, provider, search, launch, files>>
  /\ UNCHANGED orchestrator

\* ssh.py 219-221: self.tunnels[instance_id] = tunnel; the bound port is returned.
tunnel_register(t) ==
  /\ Pc(t, "register")
  /\ ssh_service' = [ssh_service EXCEPT !.tunnels =
       [i \in DOMAIN @ \cup {threads[t].instance_id} |->
          IF i = threads[t].instance_id THEN threads[t].f ELSE @[i]]]
  /\ threads' = [threads EXCEPT ![t].pc = "unlock",
                                ![t].result = Some(forwarders[threads[t].f].local_bind_port)]
  /\ UNCHANGED <<forwarders, provider, search, launch, files>>
  /\ UNCHANGED orchestrator

\* ssh.py 229: close_tunnel (called by the handlers close_tunnel and
\* destroy_instance) looks for the instance's tunnel.
close_tunnel(t) ==
  /\ Pc(t, "locked")
  /\ threads[t].op \in {"close_tunnel", "destroy_instance"}
  /\ threads' = [threads EXCEPT ![t].pc =
       IF threads[t].instance_id \in DOMAIN ssh_service.tunnels THEN "stop" ELSE "unlock"]
  /\ UNCHANGED <<ssh_service, forwarders, provider, search, launch, files>>
  /\ UNCHANGED orchestrator

\* ssh.py 230: self.tunnels[instance_id].stop(). When stop raises, line 231 is
\* not reached, and the forwarder may or may not still be forwarding.
tunnel_stop(t) ==
  /\ Pc(t, "stop")
  /\ LET f == ssh_service.tunnels[threads[t].instance_id]
     IN \/ /\ forwarders' = [forwarders EXCEPT ![f].alive = FALSE]
           /\ threads' = [threads EXCEPT ![t].pc = "del"]
        \/ /\ \E alive \in BOOLEAN : forwarders' = [forwarders EXCEPT ![f].alive = alive]
           /\ threads' = [threads EXCEPT ![t].pc = "unlock", ![t].raised = Some("stop failed")]
  /\ UNCHANGED <<ssh_service, provider, search, launch, files>>
  /\ UNCHANGED orchestrator

\* ssh.py 231: del self.tunnels[instance_id]
tunnel_del(t) ==
  /\ Pc(t, "del")
  /\ ssh_service' = [ssh_service EXCEPT !.tunnels =
       [i \in DOMAIN @ \ {threads[t].instance_id} |-> @[i]]]
  /\ threads' = [threads EXCEPT ![t].pc = "unlock"]
  /\ UNCHANGED <<forwarders, provider, search, launch, files>>
  /\ UNCHANGED orchestrator

\* ssh.py 236-238: the bound port of the instance's tunnel, or None.
get_tunnel_port(t) ==
  /\ Pc(t, "locked")
  /\ threads[t].op = "get_tunnel_port"
  /\ threads' = [threads EXCEPT
       ![t].pc = "unlock",
       ![t].result = IF threads[t].instance_id \in DOMAIN ssh_service.tunnels
                     THEN Some(forwarders[ssh_service.tunnels[threads[t].instance_id]].local_bind_port)
                     ELSE None]
  /\ UNCHANGED <<ssh_service, forwarders, provider, search, launch, files>>
  /\ UNCHANGED orchestrator

\* The lock is released by a return only: a call that ends with an exception
\* leaves the with block holding it.
release_on_return(t) ==
  /\ Pc(t, "unlock")
  /\ ssh_service' = [ssh_service EXCEPT !.lock = IF threads[t].raised = None THEN 0 ELSE @]
  /\ threads' = [threads EXCEPT ![t].pc =
       IF threads[t].op = "destroy_instance" /\ threads[t].raised = None
       THEN "destroy" ELSE "done"]
  /\ UNCHANGED <<forwarders, provider, search, launch, files>>
  /\ UNCHANGED orchestrator

\* The with block is left, by a return or by an exception: the lock is
\* released. destroy_instance goes on to the marketplace when close_tunnel
\* has returned; every other call ends here.
release(t) ==
  /\ Pc(t, "unlock")
  /\ ssh_service' = [ssh_service EXCEPT !.lock = 0]
  /\ threads' = [threads EXCEPT ![t].pc =
       IF threads[t].op = "destroy_instance" /\ threads[t].raised = None
       THEN "destroy" ELSE "done"]
  /\ UNCHANGED <<forwarders, provider, search, launch, files>>
  /\ UNCHANGED orchestrator

\* The answers of the marketplace to a DELETE: done, accepted without content,
\* no such instance, server error.
StatusCodes == {200, 204, 404, 500}

\* Every answer that is not an error counts as success.
SuccessUnlessError(status_code) == status_code < 400

\* vast.py 84: return resp.status_code == 200
Success(status_code) == status_code = 200

\* instances.py 73-76, vast.py 77-84: the DELETE call. The marketplace answers
\* with a status code, and has ended the instance when it answers 200; the
\* service turns the code into a boolean and the handler raises on False. A
\* call the marketplace never answers raises out of the client.
destroy_instance(t) ==
  /\ Pc(t, "destroy")
  /\ \/ \E status_code \in StatusCodes :
          /\ provider' = [provider EXCEPT !.destroyed =
                IF status_code = 200 THEN @ \cup {threads[t].instance_id} ELSE @]
          /\ threads' = [threads EXCEPT
                ![t].pc = "done",
                ![t].status_code = status_code,
                ![t].success = Some(Success(status_code)),
                ![t].result = IF Success(status_code) THEN Some("terminated") ELSE None,
                ![t].raised = IF Success(status_code) THEN None
                              ELSE Some("500 Failed to destroy instance")]
     \/ /\ threads' = [threads EXCEPT ![t].pc = "done", ![t].raised = Some("ConnectError")]
        /\ UNCHANGED provider
  /\ UNCHANGED <<ssh_service, forwarders, search, launch, files>>
  /\ UNCHANGED orchestrator

NextTunnel ==
  \/ \E i \in InstanceIds, p \in LocalPorts, k \in KeyPaths : request("create_tunnel", i, p, k)
  \/ \E i \in InstanceIds : request("close_tunnel", i, 0, None)
  \/ \E i \in InstanceIds : request("get_tunnel_port", i, 0, None)
  \/ \E i \in InstanceIds : request("destroy_instance", i, 0, None)
  \/ \E t \in DOMAIN threads : get_instance(t)
  \/ \E t \in DOMAIN threads : acquire(t)
  \/ \E t \in DOMAIN threads : create_tunnel(t)
  \/ \E t \in DOMAIN threads : load_key(t)
  \/ \E t \in DOMAIN threads : get_pkey(t)
  \/ \E t \in DOMAIN threads : get_ssh_key_path(t)
  \/ \E t \in DOMAIN threads : load_default_key(t)
  \/ \E t \in DOMAIN threads : cache_key(t)
  \/ \E t \in DOMAIN threads : cache_key_path(t)
  \/ \E t \in DOMAIN threads : tunnel_start(t)
  \/ \E t \in DOMAIN threads : tunnel_register(t)
  \/ \E t \in DOMAIN threads : close_tunnel(t)
  \/ \E t \in DOMAIN threads : tunnel_stop(t)
  \/ \E t \in DOMAIN threads : tunnel_del(t)
  \/ \E t \in DOMAIN threads : get_tunnel_port(t)
  \/ \E t \in DOMAIN threads : release(t)
  \/ \E t \in DOMAIN threads : destroy_instance(t)

\* The key files of a behaviour of the registry: the marketplace key alone, no
\* key at all, and the marketplace key with a usable or a passphrase-protected
\* key at the path a request may name.
TunnelFiles ==
  {VastKey, NoFiles,
   [VastKey EXCEPT ![CustomPath] = "ed25519"],
   [VastKey EXCEPT ![CustomPath] = "encrypted"]}

InitTunnel ==
  /\ training_jobs = {}
  /\ job = <<>>
  /\ drive = <<>>
  /\ calls = 0
  /\ rewritten = {}
  /\ response = None
  /\ InitServices
  /\ search = None
  /\ launch = None
  /\ files \in TunnelFiles

SpecTunnel == InitTunnel /\ [][NextTunnel]_vars

\* One step of call t, whichever statement it is at.
ThreadStep(t) ==
  \/ get_instance(t)
  \/ acquire(t)
  \/ create_tunnel(t)
  \/ load_key(t)
  \/ get_pkey(t)
  \/ get_ssh_key_path(t)
  \/ load_default_key(t)
  \/ cache_key(t)
  \/ cache_key_path(t)
  \/ tunnel_start(t)
  \/ tunnel_register(t)
  \/ close_tunnel(t)
  \/ tunnel_stop(t)
  \/ tunnel_del(t)
  \/ get_tunnel_port(t)
  \/ release(t)
  \/ destroy_instance(t)

\* The registry under a fair scheduler: every call's thread keeps running,
\* tunnel.start() and tunnel.stop() return or raise, and a thread that waits
\* for the lock takes it when it stays free.
SpecTunnelFair ==
  InitTunnel /\ [][NextTunnel]_vars /\ \A t \in 1..MaxRequests : WF_vars(ThreadStep(t))

\* ------------------------------------------------------ the blocking channel
\* exit codes of a remote command.
ExitCodes == {0, 1}

\* ssh.py 130-138: client.connect with the key _get_pkey gave. A connect that
\* raises (timeout, refused, authentication) may have brought the transport up
\* before it failed.
connect(t) ==
  /\ Pc(t, "connect")
  /\ \/ threads' = [threads EXCEPT ![t].pc = "run", ![t].client = "open"]
     \/ \E client \in {"new", "open"}, m \in ExcMsgs :
          threads' = [threads EXCEPT ![t].pc = "finally", ![t].client = client,
                                     ![t].raised = Some(m)]
  /\ UNCHANGED <<ssh_service, forwarders, provider, search, launch, files>>
  /\ UNCHANGED orchestrator

\* ssh.py 139-141: the command is run, its exit status awaited and its output
\* read; the timeout and every channel error raise.
exec_command(t) ==
  /\ Pc(t, "run")
  /\ \/ \E exit_code \in ExitCodes :
          threads' = [threads EXCEPT ![t].pc = "finally", ![t].result = Some(exit_code)]
     \/ \E m \in ExcMsgs :
          threads' = [threads EXCEPT ![t].pc = "finally", ![t].raised = Some(m)]
  /\ UNCHANGED <<ssh_service, forwarders, provider, search, launch, files>>
  /\ UNCHANGED orchestrator

\* The client is closed after the return statement only: an exception leaves
\* the call at once.
client_close_on_return(t) ==
  /\ Pc(t, "finally")
  /\ threads' = [threads EXCEPT ![t].pc = "done",
                                ![t].client = IF threads[t].raised = None THEN "closed" ELSE @]
  /\ UNCHANGED <<ssh_service, forwarders, provider, search, launch, files>>
  /\ UNCHANGED orchestrator

\* ssh.py 142-143: finally: client.close(), on a return and on an exception.
client_close(t) ==
  /\ Pc(t, "finally")
  /\ threads' = [threads EXCEPT ![t].pc = "done", ![t].client = "closed"]
  /\ UNCHANGED <<ssh_service, forwarders, provider, search, launch, files>>
  /\ UNCHANGED orchestrator

\* The calls that look the default key up: exec_command calls, each on the
\* thread of a job's driver, beside create_tunnel calls of the handler.
NextChannel ==
  \/ request("exec_command", 0, 0, None)
  \/ \E i \in InstanceIds, p \in LocalPorts, k \in KeyPaths : request("create_tunnel", i, p, k)
  \/ \E t \in DOMAIN threads : get_instance(t)
  \/ \E t \in DOMAIN threads : acquire(t)
  \/ \E t \in DOMAIN threads : create_tunnel(t)
  \/ \E t \in DOMAIN threads : load_key(t)
  \/ \E t \in DOMAIN threads : get_pkey(t)
  \/ \E t \in DOMAIN threads : get_ssh_key_path(t)
  \/ \E t \in DOMAIN threads : load_default_key(t)
  \/ \E t \in DOMAIN threads : cache_key(t)
  \/ \E t \in DOMAIN threads : cache_key_path(t)
  \/ \E t \in DOMAIN threads : tunnel_start(t)
  \/ \E t \in DOMAIN threads : tunnel_register(t)
  \/ \E t \in DOMAIN threads : release(t)
  \/ \E t \in DOMAIN threads : connect(t)
  \/ \E t \in DOMAIN threads : exec_command(t)
  \/ \E t \in DOMAIN threads : client_close(t)

SpecChannel == InitTunnel /\ [][NextChannel]_vars

\* --------------------------------------------------- resolving the default key
\* One call of _get_pkey in a fresh process, over every content of the four
\* default paths.
InitResolve ==
  /\ training_jobs = {}
  /\ job = <<>>
  /\ drive = <<>>
  /\ calls = 0
  /\ rewritten = {}
  /\ response = None
  /\ ssh_service = [tunnels |-> <<>>, lock |-> 0, cached_key |-> None, cached_key_path |-> None]
  /\ forwarders = <<>>
  /\ provider = [destroyed |-> {}]
  /\ search = None
  /\ launch = None
  /\ threads = <<NewThread("exec_command", 0, 0, None)>>
  /\ files \in {f \in [Paths -> FileKinds] : f[CustomPath] = "absent"}

NextResolve ==
  \/ \E t \in DOMAIN threads : get_pkey(t)
  \/ \E t \in DOMAIN threads : get_ssh_key_path(t)
  \/ \E t \in DOMAIN threads : load_default_key(t)
  \/ \E t \in DOMAIN threads : cache_key(t)
  \/ \E t \in DOMAIN threads : cache_key_path(t)

SpecResolve == InitResolve /\ [][NextResolve]_vars

\* ------------------------------------------------------- the offer search
\* Offers one marketplace response lists.
MaxOffers == 2

\* GPU names are strings over a small alphabet: an upper-case letter, its
\* lower-case form and a digit.
lower(s) == [k \in DOMAIN s |-> IF s[k] = "A" THEN "a" ELSE s[k]]

\* a in b of two strings.
In(a, b) == \E k \in 0..(Len(b) - Len(a)) : SubSeq(b, k + 1, k + Len(a)) = a

\* The fields of an offer of the response; <<>> stands for a key the offer
\* does not carry.
OfferNames == {None, Some(<<"A", "4">>), Some(<<"a", "4">>)}
OfferRams == {None, Some(24)}
OfferPrices == {None, Some(5)}
OfferFlags == {None, Some(TRUE), Some(FALSE)}
Offers == [gpu_name : OfferNames, gpu_ram : OfferRams, dph_total : OfferPrices,
           rentable : OfferFlags]

\* The filter of a search: gpu_name, min_gpu_ram and max_price.
FilterNames == {<<>>, <<"A">>, <<"a", "4">>}
FilterRams == {0, 24, 48}
FilterPrices == {1, 5, 999}

\* o.get(key, default)
Get(o, key, default) == IF o[key] = None THEN default ELSE o[key][1]

\* The rentable flag is not looked at.
KeepAnyRentable(o, gpu_name, min_gpu_ram, max_price) ==
  /\ In(lower(gpu_name), lower(Get(o, "gpu_name", <<>>)))
  /\ Get(o, "gpu_ram", 0) >= min_gpu_ram
  /\ Get(o, "dph_total", 999) <= max_price

\* vast.py 29-32: the condition of the list comprehension.
Keep(o, gpu_name, min_gpu_ram, max_price) ==
  /\ In(lower(gpu_name), lower(Get(o, "gpu_name", <<>>)))
  /\ Get(o, "gpu_ram", 0) >= min_gpu_ram
  /\ Get(o, "dph_total", 999) <= max_price
  /\ Get(o, "rentable", FALSE) = TRUE

\* vast.py 27-33: [o for o in offers if ...], in the order of the response.
RECURSIVE Filtered(_, _, _, _)
Filtered(offers, gpu_name, min_gpu_ram, max_price) ==
  IF offers = <<>> THEN <<>>
  ELSE LET rest == Filtered(Tail(offers), gpu_name, min_gpu_ram, max_price)
       IN IF Keep(Head(offers), gpu_name, min_gpu_ram, max_price)
          THEN <<Head(offers)>> \o rest ELSE rest

\* One search_gpus call with its arguments, waiting for the marketplace whose
\* response will list offers.
InitSearch ==
  /\ training_jobs = {}
  /\ job = <<>>
  /\ drive = <<>>
  /\ calls = 0
  /\ rewritten = {}
  /\ response = None
  /\ InitServices
  /\ launch = None
  /\ files = VastKey
  /\ search \in [gpu_name : FilterNames, min_gpu_ram : FilterRams, max_price : FilterPrices,
                 offers : SeqsUpTo(Offers, MaxOffers), pc : {"get"},
                 filtered : {None}, raised : {None}]

\* vast.py 19-34: the response arrives; an error status raises at line 24,
\* otherwise the filtered list is returned.
search_gpus ==
  /\ search /= None
  /\ search.pc = "get"
  /\ \/ search' = [search EXCEPT !.pc = "returned",
                     !.filtered = Some(Filtered(search.offers, search.gpu_name,
                                                search.min_gpu_ram, search.max_price))]
     \/ search' = [search EXCEPT !.pc = "raised", !.raised = Some("HTTPStatusError")]
  /\ UNCHANGED <<ssh_service, forwarders, threads, provider, launch, files>>
  /\ UNCHANGED orchestrator

NextSearch == search_gpus

SpecSearch == InitSearch /\ [][NextSearch]_vars

\* ------------------------------------------------------- launching a machine
\* Offers one marketplace response to launch_instance lists.
MaxCandidates == 4

\* The offers of the response: the marketplace numbers them (id); each is a
\* rentable 24 GB machine of the type asked for, at a price or without one.
LaunchPrices == {None, Some(1), Some(2), Some(3)}
LaunchOffer(id, dph_total) ==
  [id |-> id, gpu_name |-> Some(<<"A", "4">>), gpu_ram |-> Some(24),
   dph_total |-> dph_total, rentable |-> Some(TRUE)]
LaunchResponses ==
  UNION {{[k \in 1..n |-> LaunchOffer(k, f[k])] : f \in [1..n -> LaunchPrices]} :
           n \in 0..MaxCandidates}

\* LaunchRequest.max_price values submitted.
LaunchMaxPrices == {2, 999}

\* str(e) of the exceptions rent_instance raises (vast.py 53-55).
RentErrors == {"Vast.ai error: no_such_ask", "Vast.ai error: insufficient credit"}

\* instances.py 52: the sort key, lambda x: x.get("dph_total", 999)
Price(o) == Get(o, "dph_total", 999)

\* sorted(offers, key=...): a stable sort, offers of equal price keep the
\* order of the response.
RECURSIVE Sorted(_)
Sorted(offers) ==
  IF offers = <<>> THEN <<>>
  ELSE LET last == offers[Len(offers)]
           front == Sorted(SubSeq(offers, 1, Len(offers) - 1))
           n == Cardinality({k \in DOMAIN front : Price(front[k]) <= Price(last)})
       IN SubSeq(front, 1, n) \o <<last>> \o SubSeq(front, n + 1, Len(front))

\* Every offer of the list is tried.
WholeList(sorted_offers) == sorted_offers

\* instances.py 55: sorted_offers[:3]
FirstThree(sorted_offers) ==
  SubSeq(sorted_offers, 1, IF Len(sorted_offers) < 3 THEN Len(sorted_offers) ELSE 3)

\* One launch_instance call with its request, waiting for the marketplace
\* whose response will list offers. attempts are the offer ids rent_instance
\* was called with, errors the messages of the rentals that failed.
InitLaunch ==
  /\ training_jobs = {}
  /\ job = <<>>
  /\ drive = <<>>
  /\ calls = 0
  /\ rewritten = {}
  /\ response = None
  /\ InitServices
  /\ search = None
  /\ files = VastKey
  /\ launch \in [gpu_type : {<<"a">>}, max_price : LaunchMaxPrices, response : LaunchResponses,
                 pc : {"search"}, offers : {<<>>}, sorted_offers : {<<>>}, attempts : {<<>>},
                 errors : {<<>>}, last_error : {None}, result : {None}, raised : {None}]

\* instances.py 44-52: search_gpus with the request's type and price (and its
\* own default for min_gpu_ram); nothing found is a 404; the offers found are
\* sorted by price. An error answer of the marketplace raises out of the handler.
launch_instance ==
  /\ launch /= None
  /\ launch.pc = "search"
  /\ \/ LET offers == Filtered(launch.response, launch.gpu_type, 24, launch.max_price)
        IN IF offers = <<>>
           THEN launch' = [launch EXCEPT !.pc = "done",
                             !.raised = Some("404 No GPUs available")]
           ELSE launch' = [launch EXCEPT !.pc = "rent", !.offers = offers,
                             !.sorted_offers = Sorted(offers)]
     \/ launch' = [launch EXCEPT !.pc = "done", !.raised = Some("HTTPStatusError")]
  /\ UNCHANGED <<ssh_service, forwarders, threads, provider, search, files>>
  /\ UNCHANGED orchestrator

\* A failed rental's message is kept only when none was kept before.
rent_instance_keeps_first ==
  /\ launch /= None
  /\ launch.pc = "rent"
  /\ Len(launch.attempts) < Len(FirstThree(launch.sorted_offers))
  /\ LET offer == FirstThree(launch.sorted_offers)[Len(launch.attempts) + 1]
     IN \/ launch' = [launch EXCEPT !.pc = "done",
                        !.attempts = Append(@, offer.id),
                        !.result = Some([new_contract |-> offer.id])]
        \/ \E m \in RentErrors :
             launch' = [launch EXCEPT !.attempts = Append(@, offer.id),
                          !.errors = Append(@, m),
                          !.last_error = IF @ = None THEN Some(m) ELSE @]
  /\ UNCHANGED <<ssh_service, forwarders, threads, provider, search, files>>
  /\ UNCHANGED orchestrator

\* instances.py 55-65, vast.py 36-56: one turn of the loop. rent_instance is
\* called for the next offer; its result is returned, or the message of its
\* exception is kept and the loop goes on.
rent_instance ==
  /\ launch /= None
  /\ launch.pc = "rent"
  /\ Len(launch.attempts) < Len(FirstThree(launch.sorted_offers))
  /\ LET offer == FirstThree(launch.sorted_offers)[Len(launch.attempts) + 1]
     IN \/ launch' = [launch EXCEPT !.pc = "done",
                        !.attempts = Append(@, offer.id),
                        !.result = Some([new_contract |-> offer.id])]
        \/ \E m \in RentErrors :
             launch' = [launch EXCEPT !.attempts = Append(@, offer.id),
                          !.errors = Append(@, m),
                          !.last_error = Some(m)]
  /\ UNCHANGED <<ssh_service, forwarders, threads, provider, search, files>>
  /\ UNCHANGED orchestrator

\* instances.py 67: the loop is over and no rental succeeded.
launch_failed ==
  /\ launch /= None
  /\ launch.pc = "rent"
  /\ Len(launch.attempts) = Len(FirstThree(launch.sorted_offers))
  /\ launch' = [launch EXCEPT !.pc = "done",
                  !.raised = Some("503 Could not rent instance: " \o launch.last_error[1])]
  /\ UNCHANGED <<ssh_service, forwarders, threads, provider, search, files>>
  /\ UNCHANGED orchestrator

NextLaunch ==
  \/ launch_instance
  \/ rent_instance
  \/ launch_failed

SpecLaunch == InitLaunch /\ [][NextLaunch]_vars

\* ------------------------------------------------------------------ claims
\* The position of a status in pending < running < uploading < {completed, failed}.
Rank(status) ==
  CASE status = "pending" -> 0
    [] status = "running" -> 1
    [] status = "uploading" -> 2
    [] status \in {"completed", "failed"} -> 3

Terminal == {"completed", "failed"}

\* new is an earlier value than old.
Earlier(new, old) == new \in Statuses /\ old \in Statuses /\ Rank(new) < Rank(old)

\* A step from status old to status new moves forward or not at all.
Forward(old, new) == (old \in Terminal => new = old) /\ ~Earlier(new, old)

\* Driver d has left the handler of run_training_thread or the failure return
\* of start_training.
ThreadFailed(d) == drive[d].pc = "done" /\ drive[d].e /= None
PreflightFailed(d) == drive[d].pc = "pf_return"

\* C1 as stated: whatever operation is applied (create_job, the driver,
\* update_job, start_job, delete_job), no job's status ever moves to an
\* earlier value, and a completed or failed status never changes again.
C1_StatusOnlyForward ==
  [][\A j \in DOMAIN job : Forward(job[j].status, job'[j].status)]_vars

\* C1 as amended: the status of a job to which neither update_job nor
\* start_job has been applied only moves forward, and never leaves completed
\* or failed, under create_job, its driver and delete_job.
C1_StatusForwardUnlessRewritten ==
  [][\A j \in DOMAIN job : j \notin rewritten' => Forward(job[j].status, job'[j].status)]_vars

\* C1's case: a job neither update_job nor start_job wrote to was created,
\* driven up to completed and deleted.
C1_Witness ==
  \E j \in DOMAIN job :
    j \notin rewritten /\ j \notin training_jobs /\ job[j].status = "completed"

\* The status changes the driver may make.
DriverTransitions ==
  {<<"pending", "running">>, <<"running", "uploading">>, <<"uploading", "completed">>,
   <<"running", "failed">>, <<"uploading", "failed">>, <<"pending", "failed">>}

C3_StatusInDomain == \A j \in DOMAIN job : job[j].status \in Statuses

\* C4: a drive whose pre-flight check fails takes its job from pending straight
\* to failed with a non-null error (the failure's message); the job is never
\* running during it, started_at stays unset and no remote command is run.
C4_PreflightFailure ==
  \A d \in DOMAIN drive :
    LET j == job[drive[d].job] IN
    /\ drive[d].pc = "pf_status" => j.status = "pending"
    /\ drive[d].pc \in {"pf_error", "pf_return"} => j.status = "failed"
    /\ drive[d].pc \in {"pf_status", "pf_error", "pf_return"} =>
         /\ j.started_at = None
         /\ \A p \in Phases : drive[d].res[p] = "-"
         /\ drive[d].client = "none"
    /\ PreflightFailed(d) => j.error /= None /\ j.error = drive[d].e

\* C4's case: a pre-flight failure has been recorded and start_training returned.
C4_Witness == \E d \in DOMAIN drive : PreflightFailed(d)

\* C5: a job the driver has put into failed, by a pre-flight failure or by the
\* handler of run_training_thread, has completed_at and error set.
C5_FailedHasCompletedAt ==
  \A d \in DOMAIN drive :
    (PreflightFailed(d) \/ ThreadFailed(d)) =>
      /\ job[drive[d].job].status = "failed"
      /\ job[drive[d].job].completed_at /= None
      /\ job[drive[d].job].error /= None

\* The uploading stage of drive d met a failure: the artifact check or the
\* download exited non-zero or raised, the download was empty, or decoding or
\* the storage upload raised.
UploadStageFailed(d) ==
  \/ drive[d].res["check"] \in {"rc", "raise"}
  \/ drive[d].res["download"] \in {"rc", "empty", "raise"}
  \/ drive[d].res["upload"] \in {"decode", "raise"}

\* C6: a drive whose uploading stage met a failure ends with the job failed
\* and the error recorded, never completed.
C6_UploadFailureFails ==
  \A d \in DOMAIN drive :
    (drive[d].pc = "done" /\ UploadStageFailed(d)) =>
      /\ job[drive[d].job].status = "failed"
      /\ job[drive[d].job].error /= None

\* Every phase of drive d ran and none met an error.
AllPhasesOk(d) == drive[d].e = None /\ \A p \in Phases : drive[d].res[p] = "ok"

\* C7: a drive that completes every phase without error ends with the job
\* completed, current_step equal to steps, started_at and completed_at set.
C7_FullSuccess ==
  \A d \in DOMAIN drive :
    (drive[d].pc = "done" /\ AllPhasesOk(d)) =>
      LET j == job[drive[d].job] IN
      /\ j.status = "completed"
      /\ j.current_step = j.steps
      /\ j.started_at /= None
      /\ j.completed_at /= None

\* C7's case: a drive ended after each of its phases succeeded.
C7_Witness == \E d \in DOMAIN drive : drive[d].pc = "done" /\ AllPhasesOk(d)

\* The driver is in, or has left, the handler of run_training_thread.
Handling(d) == drive[d].pc \in {"exc_status", "exc_error", "exc_completed_at"} \/ ThreadFailed(d)

\* C8 as stated: a failure of the dependency install, a non-zero exit code or
\* the execution call raising, never stops the drive: the driver goes on to
\* the streamed training phase.
C8_DepsNeverFatal ==
  \A d \in DOMAIN drive :
    (drive[d].res["deps"] \in {"rc", "raise"} /\ drive[d].pc = "done")
      => drive[d].res["train"] /= "-"

\* C8 as amended: a non-zero exit code of the dependency install never stops
\* the drive (the driver goes on to the streamed training phase, and a drive
\* that fails does so in a later phase); when the execution call itself
\* raises, the handler records the job as failed with the exception's message
\* and the training phase is not run.
C8_DepsExitCodeNotFatal ==
  \A d \in DOMAIN drive :
    /\ drive[d].res["deps"] = "rc" =>
         /\ drive[d].pc /= "deps"
         /\ Handling(d) => drive[d].res["train"] /= "-"
         /\ drive[d].pc = "done" => drive[d].res["train"] /= "-"
    /\ drive[d].res["deps"] = "raise" =>
         /\ Handling(d)
         /\ drive[d].res["train"] = "-"
         /\ ThreadFailed(d) =>
              /\ job[drive[d].job].status = "failed"
              /\ job[drive[d].job].error = drive[d].e

\* C8's case: the install exited non-zero and the drive went on to completed.
C8_Witness ==
  \E d \in DOMAIN drive :
    /\ drive[d].res["deps"] = "rc"
    /\ drive[d].pc = "done"
    /\ job[drive[d].job].status = "completed"

\* C9: when the setup command exits non-zero or the setup call raises, the
\* job ends failed with the triggering message in error, and no later phase
\* (install, training, artifact check, download, upload) is run.
C9_SetupFailureFatal ==
  \A d \in DOMAIN drive :
    drive[d].res["setup"] \in {"rc", "raise"} =>
      /\ Handling(d)
      /\ \A p \in Phases \ {"setup"} : drive[d].res[p] = "-"
      /\ drive[d].client = "none"
      /\ ThreadFailed(d) =>
           /\ job[drive[d].job].status = "failed"
           /\ job[drive[d].job].error /= None
           /\ drive[d].res["setup"] = "rc" =>
                job[drive[d].job].error[1] \in {"Setup failed: " \o stderr : stderr \in Stderrs}
           /\ drive[d].res["setup"] = "raise" => job[drive[d].job].error[1] \in ExcMsgs

\* C9's case: the setup command exited non-zero and the drive has ended.
C9_Witness ==
  \E d \in DOMAIN drive : drive[d].res["setup"] = "rc" /\ drive[d].pc = "done"

\* The marker STEP: stands at position i of line, immediately before a digit.
MarkerAt(line, i) ==
  i \in 1..(Len(line) - 1) /\ line[i] = "STEP:" /\ line[i + 1] \in Digits

\* The decimal number written by the digits line[i..k].
Decimal(line, i, k) ==
  LET pow[n \in 0..(k - i)] == IF n = 0 THEN 1 ELSE 10 * pow[n - 1]
      sum[m \in (i - 1)..k] ==
        IF m = i - 1 THEN 0 ELSE sum[m - 1] + DigitVal(line[m]) * pow[k - m]
  IN sum[k]

\* The integer that follows the first marker of line that has one.
StepOf(line) ==
  LET i == CHOOSE m \in 1..Len(line) :
             MarkerAt(line, m) /\ \A n \in 1..(m - 1) : ~MarkerAt(line, n)
      k == CHOOSE n \in (i + 1)..Len(line) :
             /\ \A m \in (i + 1)..n : line[m] \in Digits
             /\ n = Len(line) \/ line[n + 1] \notin Digits
  IN Decimal(line, i + 1, k)

\* C10: for every line taken from the stream, a line that contains STEP:
\* immediately followed by an integer n sets current_step to n, also when n is
\* smaller than the value before; any other line leaves current_step unchanged.
C10_StepLine ==
  [][\A d \in DOMAIN drive :
       (drive[d].pc = "parse" /\ drive'[d].pc /= "parse") =>
         LET line == drive[d].line
             j == drive[d].job
         IN IF \E i \in 1..Len(line) : MarkerAt(line, i)
            THEN job'[j].current_step = StepOf(line)
            ELSE job'[j].current_step = job[j].current_step]_vars

\* C10's case: a line of the stream has lowered current_step from the 10 it
\* had when the stream started to 2.
C10_Witness ==
  \E d \in DOMAIN drive :
    /\ drive[d].pc = "read"
    /\ drive[d].stdout_stream < MaxLines
    /\ job[drive[d].job].current_step = 2

\* -------------------------------------------- one job, a well-formed stream
\* Output lines of train_cmd (lines 87-98) for a job whose lora_name is
\* "STEP:2" and whose steps are below 100: "Starting training for STEP:2",
\* "Training complete" and "LoRA file created: ... STEP:2.safetensors ...".
\* Every progress value such a stream carries is 2: the values never decrease
\* and never exceed steps.
NamedLines == {<<"x">>, <<"x", "STEP:", "2">>, <<"x", "STEP:", "2", "x">>}

\* One job is submitted and driven by the one driver create_job schedules; no
\* other request is served.
NextStream ==
  \/ \E steps \in StepsChoices : job = <<>> /\ create_job(steps)
  \/ \E d \in DOMAIN drive : start_training(d)
  \/ \E d \in DOMAIN drive : pf_status(d)
  \/ \E d \in DOMAIN drive : pf_error(d)
  \/ \E d \in DOMAIN drive : set_running(d)
  \/ \E d \in DOMAIN drive : set_started(d)
  \/ \E d \in DOMAIN drive : setup(d)
  \/ \E d \in DOMAIN drive : deps(d)
  \/ \E d \in DOMAIN drive : step10(d)
  \/ \E d \in DOMAIN drive : exec_command_async(d)
  \/ \E d \in DOMAIN drive : read_line(d, NamedLines)
  \/ \E d \in DOMAIN drive : parse_line(d)
  \/ \E d \in DOMAIN drive : close(d)
  \/ \E d \in DOMAIN drive : set_uploading(d)
  \/ \E d \in DOMAIN drive : check(d)
  \/ \E d \in DOMAIN drive : download(d)
  \/ \E d \in DOMAIN drive : upload(d)
  \/ \E d \in DOMAIN drive : set_gcs_path(d)
  \/ \E d \in DOMAIN drive : set_completed(d)
  \/ \E d \in DOMAIN drive : set_current_step(d)
  \/ \E d \in DOMAIN drive : set_completed_at(d)
  \/ \E d \in DOMAIN drive : exc_status(d)
  \/ \E d \in DOMAIN drive : exc_error(d)
  \/ \E d \in DOMAIN drive : exc_completed_at(d)

SpecStream == Init /\ [][NextStream]_vars

\* C11: for a job driven by a single driver whose stream carries
\* non-decreasing STEP values, current_step never decreases once the job has
\* become running, the driver's own writes of 10 and of steps included.
C11_StepNeverDecreases ==
  [][\A j \in DOMAIN job :
       job[j].status /= "pending" => job'[j].current_step >= job[j].current_step]_vars

\* Driver d is on a failure path: the failure return of start_training or the
\* handler of run_training_thread.
FailurePath(d) == drive[d].pc \in {"pf_status", "pf_error", "exc_status", "exc_error", "exc_completed_at"}

\* The fields of a job record, and those a failure path writes.
JobFields == {"status", "current_step", "error", "started_at", "completed_at", "gcs_path", "steps"}
FailureFields == {"status", "error", "completed_at"}

\* C12: a failure inside one job's driver is confined to that job. A step of
\* driver d leaves the record of every other job, every other driver, the
\* registry and the request layer as they were; on a failure path the step
\* writes only status (failed), error or completed_at of d's own job; and an
\* exception pending in d is always on its way to the handler that records
\* it, never out of the driver.
C12_FailureConfined ==
  [][\A d \in DOMAIN drive :
       /\ drive[d].e /= None =>
            drive[d].pc \in {"pf_status", "pf_error", "pf_return", "close",
                             "exc_status", "exc_error", "exc_completed_at", "done"}
       /\ drive'[d] /= drive[d] =>
            /\ \A k \in DOMAIN job : k /= drive[d].job => job'[k] = job[k]
            /\ \A o \in DOMAIN drive : o /= d => drive'[o] = drive[o]
            /\ DOMAIN drive' = DOMAIN drive
            /\ training_jobs' = training_jobs
            /\ calls' = calls
            /\ FailurePath(d) =>
                 /\ \A f \in JobFields \ FailureFields :
                      job'[drive[d].job][f] = job[drive[d].job][f]
                 /\ job'[drive[d].job].status \in {job[drive[d].job].status, "failed"}]_vars

\* C12's case: the driver of one job has failed and recorded it while another
\* job was driven to completed.
C12_Witness ==
  \E d, o \in DOMAIN drive :
    /\ ThreadFailed(d)
    /\ drive[o].job /= drive[d].job
    /\ job[drive[d].job].status = "failed"
    /\ job[drive[o].job].status = "completed"
    /\ job[drive[o].job].error = None

\* Driver d has not returned yet: it still reads and writes its job record.
Active(d) == drive[d].pc \notin {"done", "pf_return"}

\* C13: while a worker of a job is active, the job's record (status,
\* current_step, error, timestamps) is written by a worker of that job only:
\* no step of a request handler changes it.
C13_OnlyWorkerWrites ==
  [][\A j \in DOMAIN job :
       ((\E d \in DOMAIN drive : drive[d].job = j /\ Active(d)) /\ job'[j] /= job[j])
         => \E d \in DOMAIN drive : drive[d].job = j /\ drive'[d] /= drive[d]]_vars

\* Driver n was scheduled by start_job for a job whose status was failed.
RestartOfFailed(n) == drive[n].prior = Some("failed")

\* C14: restarting a failed job resets status to pending, current_step to 0
\* and error, the timestamps and the artifact path to null, and schedules a
\* fresh driver; from then on the record is written only by the drivers
\* scheduled at or after the restart and by later requests, so nothing of the
\* prior attempt reaches the restarted job's record.
C14_RestartIndependent ==
  [][/\ \A j \in DOMAIN job :
          (job[j].status = "failed" /\ Len(drive') > Len(drive) /\ drive'[Len(drive')].job = j) =>
            /\ job'[j] = [job[j] EXCEPT !.status = "pending", !.current_step = 0,
                                        !.error = None, !.started_at = None,
                                        !.completed_at = None, !.gcs_path = None]
            /\ drive'[Len(drive')].pc = "start_training"
     /\ \A n \in DOMAIN drive :
          (RestartOfFailed(n) /\ job'[drive[n].job] /= job[drive[n].job]) =>
            \/ calls' /= calls
            \/ \E d \in DOMAIN drive : d >= n /\ drive[d].job = drive[n].job /\ drive'[d] /= drive[d]]_vars

\* The bound port of the tunnel registered for instance i.
Registered(i) == forwarders[ssh_service.tunnels[i]].local_bind_port

\* C15: a create_tunnel call that finds a tunnel registered for its instance
\* returns that tunnel's bound port, whatever its own arguments: it raises
\* nothing, constructs no forwarder and leaves the registry as it is, up to its
\* return.
C15_CreateIdempotent ==
  [][\A t \in DOMAIN threads :
       (threads[t].op = "create_tunnel" /\ threads'[t] /= threads[t]) =>
         /\ (threads[t].pc = "locked" /\ threads[t].instance_id \in DOMAIN ssh_service.tunnels) =>
              /\ threads'[t].pc = "unlock"
              /\ threads'[t].result = Some(Registered(threads[t].instance_id))
              /\ threads'[t].raised = None
              /\ threads'[t].f = 0
              /\ forwarders' = forwarders
              /\ ssh_service'.tunnels = ssh_service.tunnels
         /\ (threads[t].pc = "unlock" /\ threads[t].f = 0 /\ threads[t].result /= None) =>
              /\ threads'[t] = [threads[t] EXCEPT !.pc = "done"]
              /\ threads[t].result = Some(Registered(threads[t].instance_id))
              /\ forwarders' = forwarders
              /\ ssh_service'.tunnels = ssh_service.tunnels]_vars

\* C15's case: a second create_tunnel call for an instance, made with another
\* local port, has returned the port the first call bound, and the first
\* call's forward is the only one ever constructed.
C15_Witness ==
  \E t \in DOMAIN threads :
    /\ threads[t].op = "create_tunnel"
    /\ threads[t].pc = "done"
    /\ threads[t].f = 0
    /\ threads[t].result /= None
    /\ threads[t].result /= Some(threads[t].local_port)
    /\ Len(forwarders) = 1
    /\ DOMAIN ssh_service.tunnels = {threads[t].instance_id}

\* The forwards that are established and live for instance i.
Live(i) == {f \in DOMAIN forwarders : forwarders[f].instance_id = i /\ forwarders[f].alive}

\* The threads inside a with self.lock block.
Inside == {t \in DOMAIN threads : threads[t].pc \notin {"get_instance", "lock", "destroy", "done"}}

\* C16: under any interleaving of create_tunnel, close_tunnel and
\* get_tunnel_port calls, at most one forward is established and live for an
\* instance at any time, at most one thread is inside the locked block, and
\* that thread is the one the lock names.
C16_OneLiveForward ==
  /\ \A i \in InstanceIds : Cardinality(Live(i)) <= 1
  /\ Cardinality(Inside) <= 1
  /\ \A t \in Inside : ssh_service.lock = t

\* C16's case: while one create_tunnel call has started its forward and is
\* about to register it, another call for the same instance waits for the lock.
C16_Witness ==
  \E t, o \in DOMAIN threads :
    /\ threads[t].op = "create_tunnel" /\ threads[o].op = "create_tunnel"
    /\ threads[t].instance_id = threads[o].instance_id
    /\ threads[t].pc = "register"
    /\ threads[o].pc = "lock"

\* C17: a create_tunnel call that fails (no key, or the forward cannot be
\* constructed or started) raises to its caller and returns nothing, and
\* leaves the registry as it was when the call took the lock: no entry for its
\* instance, every other entry unchanged.
C17_FailureLeavesRegistry ==
  [][\A t \in DOMAIN threads :
       (threads[t].op = "create_tunnel" /\ threads[t].pc = "unlock" /\ threads[t].raised /= None) =>
         /\ ssh_service.tunnels = threads[t].before
         /\ threads[t].instance_id \notin DOMAIN ssh_service.tunnels
         /\ threads[t].result = None
         /\ threads'[t] /= threads[t] =>
              /\ threads'[t] = [threads[t] EXCEPT !.pc = "done"]
              /\ ssh_service'.tunnels = ssh_service.tunnels]_vars

\* C17's case: a forward could not be started while another instance's tunnel
\* was registered, and the call is about to raise.
C17_Witness ==
  \E t \in DOMAIN threads :
    /\ threads[t].op = "create_tunnel"
    /\ threads[t].pc = "unlock"
    /\ threads[t].raised /= None
    /\ threads[t].f /= 0
    /\ threads[t].before /= <<>>

\* C18: when close_tunnel is about to return or raise, no tunnel is registered
\* for its instance (a following get_tunnel_port returns None); if none was
\* registered the call raises nothing; and all entries of other instances are
\* as they were when the call took the lock.
C18_CloseRemoves ==
  \A t \in DOMAIN threads :
    (threads[t].op \in {"close_tunnel", "destroy_instance"} /\ threads[t].pc = "unlock") =>
      /\ threads[t].instance_id \notin DOMAIN ssh_service.tunnels
      /\ threads[t].instance_id \notin DOMAIN threads[t].before => threads[t].raised = None
      /\ \A i \in InstanceIds \ {threads[t].instance_id} :
           /\ i \in DOMAIN ssh_service.tunnels <=> i \in DOMAIN threads[t].before
           /\ i \in DOMAIN ssh_service.tunnels => ssh_service.tunnels[i] = threads[t].before[i]

\* C19: a tunnel does not outlive its instance: no tunnel is registered for an
\* instance that a destroy_instance call has destroyed.
C19_NoTunnelOfDestroyed ==
  \A i \in provider.destroyed : i \notin DOMAIN ssh_service.tunnels

\* a occurs in b as it is written, letter case included.
Substring(a, b) ==
  \E k \in 0..(Len(b) - Len(a)) : \A n \in 1..Len(a) : b[k + n] = a[n]

\* a occurs in b when letter case is not looked at.
SubstringAnyCase(a, b) ==
  \E k \in 0..(Len(b) - Len(a)) :
    \A n \in 1..Len(a) : b[k + n] = a[n] \/ {b[k + n], a[n]} = {"A", "a"}

\* Offer o carries a name that contains the substring, a memory of at least
\* the minimum, a price of at most the maximum, and the flag rentable set.
Matches(o) ==
  /\ o.gpu_name /= None /\ Substring(search.gpu_name, o.gpu_name[1])
  /\ o.gpu_ram /= None /\ o.gpu_ram[1] >= search.min_gpu_ram
  /\ o.dph_total /= None /\ o.dph_total[1] <= search.max_price
  /\ o.rentable = Some(TRUE)

\* The same, with names compared without regard to letter case and with an
\* offer that lacks its name, memory or price taken to have the name "", the
\* memory 0 or the price 999.
MatchesWithDefaults(o) ==
  /\ SubstringAnyCase(search.gpu_name, IF o.gpu_name = None THEN <<>> ELSE o.gpu_name[1])
  /\ (IF o.gpu_ram = None THEN 0 ELSE o.gpu_ram[1]) >= search.min_gpu_ram
  /\ (IF o.dph_total = None THEN 999 ELSE o.dph_total[1]) <= search.max_price
  /\ o.rentable = Some(TRUE)

\* C20 as stated: for every filter and every response, a search that returns
\* returns exactly the offers of the response, in its order, that carry a name
\* containing the substring, enough memory, a low enough price and the
\* rentable flag set.
C20_SearchExact ==
  (search /= None /\ search.pc = "returned") =>
    search.filtered = Some(SelectSeq(search.offers, Matches))

\* C20 as amended: the same, where the substring is looked for without regard
\* to letter case, and an offer lacking its name, memory or price is compared
\* as name "", memory 0 and price 999; an offer that is marked non-rentable or
\* lacks the flag is never returned.
C20_SearchExactWithDefaults ==
  (search /= None /\ search.pc = "returned") =>
    /\ search.filtered = Some(SelectSeq(search.offers, MatchesWithDefaults))
    /\ \A k \in DOMAIN search.filtered[1] : search.filtered[1][k].rentable = Some(TRUE)

\* C20's case: of two offers that both pass the three predicates, the search
\* has returned the one marked rentable and dropped the one without the flag.
C20_Witness ==
  /\ search /= None
  /\ search.pc = "returned"
  /\ Len(search.offers) = 2
  /\ Len(search.filtered[1]) = 1
  /\ \E k \in 1..2 :
       /\ search.offers[k].rentable = None
       /\ KeepAnyRentable(search.offers[k], search.gpu_name, search.min_gpu_ram, search.max_price)

\* The phases of one drive in the order of run_training_thread, the position
\* of the driver at which each one's remote command is issued, and the
\* outcomes with which a phase returns and the driver goes on to the next.
PhaseOrder == <<"setup", "deps", "train", "check", "download", "upload">>
PhasePc == <<"setup", "deps", "exec_async", "check", "download", "upload">>
PassedOn == <<{"ok"}, {"ok", "rc"}, {"ok"}, {"ok"}, {"ok"}, {"ok"}>>

\* C26: within one drive the phases happen strictly in the order setup,
\* dependency install, streamed training, artifact check, download, storage
\* upload, completion: a phase's command is issued only by the driver standing
\* at that phase, after every earlier phase has returned and let the driver go
\* on; the status becomes uploading only after the training stream is
\* exhausted and its handle closed, and completed only after the artifact
\* check was made.
C26_PhasesInOrder ==
  [][\A d \in DOMAIN drive :
       LET j == drive[d].job IN
       /\ \A k \in 1..6 :
            (drive[d].res[PhaseOrder[k]] = "-" /\ drive'[d].res[PhaseOrder[k]] /= "-") =>
              /\ drive[d].pc = PhasePc[k]
              /\ \A n \in 1..(k - 1) : drive[d].res[PhaseOrder[n]] \in PassedOn[n]
              /\ \A n \in (k + 1)..6 : drive'[d].res[PhaseOrder[n]] = "-"
       /\ (drive[d].res["check"] = "-" /\ drive'[d].res["check"] /= "-") =>
            /\ drive[d].stdout_stream = 0
            /\ drive[d].client = "closed"
            /\ job[j].status = "uploading"
       /\ (job'[j].status = "uploading" /\ job[j].status /= "uploading") =>
            /\ job[j].status = "running"
            /\ drive[d].pc = "set_uploading"
            /\ drive[d].res["train"] = "ok"
            /\ drive[d].stdout_stream = 0
            /\ drive[d].client = "closed"
            /\ drive[d].res["check"] = "-"
       /\ (job'[j].status = "completed" /\ job[j].status /= "completed") =>
            /\ job[j].status = "uploading"
            /\ drive[d].res["check"] /= "-"]_vars

\* C26's case: a drive went through all six phases and completed its job.
C26_Witness ==
  \E d \in DOMAIN drive :
    /\ drive[d].pc = "done"
    /\ \A k \in 1..6 : drive[d].res[PhaseOrder[k]] = "ok"
    /\ drive[d].client = "closed"
    /\ job[drive[d].job].status = "completed"

\* The positions of the driver inside the try block of lines 104-117, and the
\* finally clause that ends it.
InLoop == {"read", "parse"}

\* C27: once exec_command_async has returned a handle to the driver, the
\* driver closes it before it leaves the training phase: the handle is open
\* all through the read loop, the loop is left through the finally clause
\* only, after exhaustion as after a read that raised, and the clause closes
\* the handle before the status is written again (uploading or failed), which
\* is still running up to then.
C27_HandleClosed ==
  [][\A d \in DOMAIN drive :
       LET j == drive[d].job IN
       /\ (drive[d].pc = "exec_async" /\ drive'[d].pc = "read") => drive'[d].client = "open"
       /\ drive[d].pc \in InLoop =>
            /\ drive[d].client = "open"
            /\ drive'[d].pc \in InLoop \cup {"close"}
            /\ drive'[d].client = "open"
            /\ job'[j].status = job[j].status
       /\ (drive[d].pc = "close" /\ drive'[d].pc /= "close") =>
            /\ drive'[d].client = "closed"
            /\ drive'[d].pc = (IF drive[d].e = None THEN "set_uploading" ELSE "exc_status")
            /\ job'[j].status = "running"
       /\ (drive[d].res["train"] = "ok" /\ job'[j].status /= job[j].status) =>
            drive[d].client = "closed"
       /\ ~(drive[d].client = "open" /\ drive[d].pc \in InLoop \cup {"close"}
             /\ job'[j].status /= job[j].status)]_vars

\* C27's case: a read of the stream raised, the handle was closed and the job
\* was then recorded as failed.
C27_Witness ==
  \E d \in DOMAIN drive :
    /\ drive[d].pc = "done"
    /\ drive[d].res["train"] = "raise"
    /\ drive[d].client = "closed"
    /\ job[drive[d].job].status = "failed"

\* C30: at most one background driver is active for a job at any time: a later
\* driver of a job has not begun (it is scheduled at most) as long as an earlier
\* driver of the same job has not returned.
C30_OneDriverPerJob ==
  \A d, o \in DOMAIN drive :
    (d < o /\ drive[d].job = drive[o].job /\ drive[o].pc /= "start_training") => ~Active(d)

\* C23: whenever the marketplace has answered a destroy call,
\* vast_service.destroy_instance has returned a boolean and raised nothing:
\* True exactly when the answer is 200, False for every other answer, "no such
\* instance" included; the handler returns "terminated" on True and raises
\* the one generic failure on False.
C23_DestroyBoolean ==
  \A t \in DOMAIN threads :
    (threads[t].op = "destroy_instance" /\ threads[t].status_code /= 0) =>
      /\ threads[t].pc = "done"
      /\ threads[t].success \in {Some(TRUE), Some(FALSE)}
      /\ threads[t].success = Some(TRUE) <=> threads[t].status_code = 200
      /\ threads[t].success = Some(TRUE) =>
           /\ threads[t].result = Some("terminated")
           /\ threads[t].raised = None
           /\ threads[t].instance_id \in provider.destroyed
      /\ threads[t].success = Some(FALSE) =>
           /\ threads[t].result = None
           /\ threads[t].raised = Some("500 Failed to destroy instance")

\* C23's case: one destroy call was answered "no such instance" and surfaced
\* as the generic failure, another was answered 200.
C23_Witness ==
  \E t, o \in DOMAIN threads :
    /\ threads[t].op = "destroy_instance" /\ threads[t].pc = "done"
    /\ threads[t].status_code = 404 /\ threads[t].success = Some(FALSE)
    /\ threads[o].op = "destroy_instance" /\ threads[o].pc = "done"
    /\ threads[o].status_code = 200 /\ threads[o].success = Some(TRUE)

\* The candidate offers of a launch: the offers the search found.
CandidateIds == {launch.offers[k].id : k \in DOMAIN launch.offers}
PriceOfId(id) == Price(launch.response[id])

\* C21: launch_instance attempts rentals in ascending price order over the
\* candidate offers (each attempt goes to a candidate not tried before, than
\* which no untried candidate is cheaper), makes at most 3 attempts however
\* many candidates there are, stops at the first rental that succeeds and
\* returns its result; a call that has returned or raised attempts nothing more.
C21_CheapestThree ==
  [][launch /= None =>
       /\ Len(launch'.attempts) <= 3
       /\ \A k \in DOMAIN launch'.attempts :
            /\ launch'.attempts[k] \in CandidateIds
            /\ \A n \in 1..(k - 1) : launch'.attempts[n] /= launch'.attempts[k]
            /\ \A c \in CandidateIds \ {launch'.attempts[n] : n \in 1..k} :
                 PriceOfId(launch'.attempts[k]) <= PriceOfId(c)
       /\ launch.pc = "rent" =>
            /\ Len(launch'.attempts) <= Len(launch.attempts) + 1
            /\ SubSeq(launch'.attempts, 1, Len(launch.attempts)) = launch.attempts
            /\ Len(launch.errors) = Len(launch.attempts)
       /\ launch'.result /= None =>
            /\ launch'.pc = "done"
            /\ launch'.raised = None
            /\ launch'.result = Some([new_contract |-> launch'.attempts[Len(launch'.attempts)]])
            /\ Len(launch'.errors) = Len(launch'.attempts) - 1
       /\ launch.pc = "done" => launch' = launch]_vars

\* C21's case: of four candidates the rentals of the two cheapest failed, the
\* third succeeded and its result was returned; the dearest was never tried.
C21_Witness ==
  /\ launch /= None
  /\ launch.pc = "done"
  /\ Len(launch.offers) = 4
  /\ Len(launch.attempts) = 3
  /\ Len(launch.errors) = 2
  /\ launch.result = Some([new_contract |-> launch.sorted_offers[3].id])
  /\ launch.sorted_offers[1].id /= 1

\* C22: when every attempted rental has failed, launch_instance raises the
\* error that carries the message of the last attempt's failure, and returns
\* no instance.
C22_LastError ==
  (launch /= None /\ launch.pc = "done" /\ launch.attempts /= <<>>
     /\ Len(launch.errors) = Len(launch.attempts)) =>
    /\ launch.result = None
    /\ launch.raised = Some("503 Could not rent instance: " \o launch.errors[Len(launch.errors)])

\* C22's case: three rentals failed, the first and the last with different
\* messages.
C22_Witness ==
  /\ launch /= None
  /\ launch.pc = "done"
  /\ Len(launch.errors) = 3
  /\ launch.errors[1] /= launch.errors[3]
  /\ launch.raised /= None

\* A file of this kind parses as RSA, Ed25519 or ECDSA without a passphrase.
Usable == {"rsa", "ed25519", "ecdsa"}

\* C25: a create_tunnel call given an override path that does not exist, or
\* that exists but cannot be parsed without a passphrase, falls back to the
\* default key and goes on: it never raises the override's failure, and the
\* key it goes on with is the one of a default path.
C25_OverrideFallsBack ==
  \A t \in DOMAIN threads :
    (threads[t].op = "create_tunnel" /\ threads[t].ssh_key_path /= None
       /\ files[threads[t].ssh_key_path[1]] \notin Usable) =>
      /\ threads[t].raised /= Some("Could not load key from " \o threads[t].ssh_key_path[1])
      /\ threads[t].pkey /= None =>
           \E k \in DOMAIN key_paths : threads[t].pkey[1].path = key_paths[k]

\* The positions, in the order of preference, of the default paths that exist
\* and parse as RSA, Ed25519 or ECDSA without a passphrase.
UsablePaths == {k \in DOMAIN key_paths : files[key_paths[k]] \in Usable}
FirstUsable == key_paths[CHOOSE k \in UsablePaths : \A n \in UsablePaths : k <= n]

\* C24: the resolution selects the first default path, in the fixed order,
\* that exists and parses as RSA, Ed25519 or ECDSA without a passphrase,
\* skipping every missing, unparseable, unreadable or passphrase-protected
\* file before it; the key it loads and caches is the one of that path; and it
\* fails, with the no-key error, exactly when no default path is usable.
C24_FirstUsablePath ==
  \A t \in DOMAIN threads :
    /\ threads[t].probed =>
         IF UsablePaths = {}
         THEN /\ threads[t].raised = Some("No unencrypted SSH key found")
              /\ threads[t].key_path = None
              /\ threads[t].pkey = None
              /\ ssh_service.cached_key = None
         ELSE /\ threads[t].raised = None
              /\ threads[t].key_path = Some(FirstUsable)
    /\ threads[t].pkey /= None =>
         /\ threads[t].pkey[1].path = FirstUsable
         /\ threads[t].pkey[1].type = files[FirstUsable]
    /\ threads[t].pc = "connect" =>
         /\ ssh_service.cached_key = threads[t].pkey
         /\ ssh_service.cached_key_path = Some(FirstUsable)
    /\ threads[t].raised /= None => UsablePaths = {}

\* C24's case: the first path holds a passphrase-protected key, the second
\* nothing, the third a file that is no key, and the key of the fourth has
\* been resolved.
C24_Witness ==
  \E t \in DOMAIN threads :
    /\ files[key_paths[1]] = "encrypted"
    /\ files[key_paths[2]] = "absent"
    /\ files[key_paths[3]] = "garbage"
    /\ threads[t].pc = "connect"
    /\ threads[t].pkey /= None
    /\ threads[t].pkey[1].path = key_paths[4]

\* C28: every exec_command call has a connection of its own, opened by its own
\* connect only, and closes it on every exit path: once the call has returned
\* or raised (after a key failure, a connect failure, a timeout or any other
\* exception), its client is closed.
C28_ConnectionClosed ==
  [][\A t \in DOMAIN threads :
       threads[t].op = "exec_command" =>
         /\ threads[t].pc \in {"get_pkey", "key_path", "load", "cache_key", "cache_path", "connect"}
              => threads[t].client = "new"
         /\ (threads[t].client /= "open" /\ threads'[t].client = "open") => threads[t].pc = "connect"
         /\ threads'[t].pc = "done" =>
              /\ threads'[t].client /= "open"
              /\ threads'[t].result = None <=> threads'[t].raised /= None
         /\ threads[t].pc = "done" => threads'[t] = threads[t]]_vars

\* C28's case: one call was ended by an exception with its connection up,
\* another has returned an exit code, and both clients are closed.
C28_Witness ==
  \E t, o \in DOMAIN threads :
    /\ threads[t].op = "exec_command" /\ threads[t].pc = "done"
    /\ threads[t].raised \in {Some(m) : m \in ExcMsgs}
    /\ threads[t].pkey /= None
    /\ threads[t].client = "closed"
    /\ threads[o].op = "exec_command" /\ threads[o].pc = "done"
    /\ threads[o].result /= None
    /\ threads[o].client = "closed"

\* The calls that have gone through the default paths and found a key.
Resolved == {t \in DOMAIN threads : threads[t].probed /\ threads[t].key_path /= None}

\* C29: the default key is resolved at most once in a process and is stable
\* afterwards: at most one call ever goes through the default paths with
\* success; a key once cached is never replaced; a call that finds a key
\* cached returns that key without looking at the paths; and loading the
\* override key of a tunnel leaves the cache as it is.
C29_ResolvedOnce ==
  [][/\ Cardinality(Resolved) <= 1
     /\ ssh_service.cached_key /= None => ssh_service'.cached_key = ssh_service.cached_key
     /\ \A t \in DOMAIN threads :
          /\ (threads[t].pc = "get_pkey" /\ threads'[t].pc /= "get_pkey"
                /\ ssh_service.cached_key /= None) =>
               /\ threads'[t].pkey = ssh_service.cached_key
               /\ threads'[t].pc = AfterPkey(t)
               /\ ~threads'[t].probed
          /\ (threads[t].pc = "pkey" /\ threads'[t].pc /= "pkey") =>
               ssh_service' = ssh_service]_vars

\* C31: a request the job API refuses changes nothing. start_job on a job
\* whose status is "running" is answered 400, and a get_job, update_job,
\* start_job or delete_job that names an id absent from the registry is
\* answered 404; in both cases every job record (status, current_step, error,
\* started_at, completed_at and the rest), the registry and the list of
\* scheduled drivers are after the request what they were before it.
C31_RefusedChangesNothing ==
  [][calls' /= calls =>
       LET op == response'.op
           j == response'.job_id
       IN /\ (op = "start_job" /\ j \in training_jobs /\ job[j].status = "running")
               => /\ response'.status_code = 400
                  /\ job' = job /\ drive' = drive /\ training_jobs' = training_jobs
          /\ (op /= "create_job" /\ j \notin training_jobs)
               => /\ response'.status_code = 404
                  /\ job' = job /\ drive' = drive /\ training_jobs' = training_jobs
          /\ response'.status_code \in {400, 404}
               => job' = job /\ drive' = drive /\ training_jobs' = training_jobs]_vars

\* A start_job was refused while the job's driver was between line 50 and the
\* end of the training stream, and the driver is still the only one.
C31_Witness ==
  /\ response /= None
  /\ response.op = "start_job"
  /\ response.status_code = 400
  /\ job[response.job_id].status = "running"
  /\ job[response.job_id].started_at /= None
  /\ Cardinality({d \in DOMAIN drive : drive[d].job = response.job_id}) = 1

\* C32: a job is completed only with its artifact stored. Whenever a driver
\* writes status "completed" (line 166), the upload of that same drive has
\* succeeded and the record's gcs_path is set.
C32_CompletedHasArtifact ==
  [][\A d \in DOMAIN drive :
       (drive[d].pc = "set_completed" /\ drive'[d].pc /= "set_completed")
         => /\ job'[drive[d].job].status = "completed"
            /\ drive[d].res["upload"] = "ok"
            /\ job'[drive[d].job].gcs_path /= None]_vars

\* The handler of run_training_thread (lines 171-175) has written "failed"
\* into job j.
FailedByThread(j) ==
  \E d \in DOMAIN drive :
    /\ drive[d].job = j
    /\ drive[d].e /= None
    /\ drive[d].pc \in {"exc_error", "exc_completed_at", "done"}

\* C33: a terminal status is published whole. A get_job that finds status
\* "completed" in the record also finds current_step equal to steps and
\* completed_at set, and one that finds the "failed" written by
\* run_training_thread also finds error and completed_at set.
C33_TerminalPublishedWhole ==
  [][(calls' /= calls /\ response'.op = "get_job" /\ response'.status_code = 200) =>
       LET j == response'.job_id
       IN /\ job[j].status = "completed"
               => job[j].current_step = job[j].steps /\ job[j].completed_at /= None
          /\ (job[j].status = "failed" /\ FailedByThread(j))
               => job[j].error /= None /\ job[j].completed_at /= None]_vars

\* C34: no streaming connection outlives its job. Once a job is completed or
\* failed, the connection exec_command_async opened for its drive is closed,
\* also when it was opened and the remote command then failed to start.
C34_NoLeakedConnection ==
  \A d \in DOMAIN drive :
    job[drive[d].job].status \in Terminal => drive[d].client /= "open"

\* C35: every driven job comes to an end. Under a fair scheduler, with remote
\* calls that return or raise and a stream that ends or breaks, a job whose
\* driver was scheduled and that no PATCH or restart writes to is eventually
\* completed or failed, and stays so.
C35_EventuallyTerminal ==
  \A d \in 1..MaxCalls :
    (d \in DOMAIN drive) ~> [](d \in DOMAIN drive /\ job[drive[d].job].status \in Terminal)

\* Two jobs were driven to their ends: one failed before its thread was
\* started, the other went through the stream and was completed.
C35_Witness ==
  \E d1, d2 \in DOMAIN drive :
    /\ PreflightFailed(d1)
    /\ job[drive[d1].job].status = "failed"
    /\ drive[d2].pc = "done"
    /\ drive[d2].res["train"] = "ok"
    /\ job[drive[d2].job].status = "completed"

\* C36: the registry lock is released on every exit path of create_tunnel,
\* close_tunnel and get_tunnel_port. A call that has left its with block, by
\* a return or by an exception, does not hold the lock; a call that holds it
\* gives it up; and a call that waits for it comes to hold it.
C36_LockReleased ==
  /\ [](\A t \in DOMAIN threads :
          threads[t].pc \in {"destroy", "done"} => ssh_service.lock /= t)
  /\ \A t \in 1..MaxRequests : (ssh_service.lock = t) ~> (ssh_service.lock /= t)
  /\ \A t \in 1..MaxRequests : Pc(t, "lock") ~> (ssh_service.lock = t)

\* A create_tunnel call whose forward failed to start has ended with its
\* exception, and a later call holds the lock.
C36_Witness ==
  \E t1, t2 \in DOMAIN threads :
    /\ threads[t1].pc = "done"
    /\ threads[t1].raised /= None
    /\ threads[t1].f /= 0
    /\ ~forwarders[threads[t1].f].alive
    /\ threads[t2].pc = "locked"
    /\ ssh_service.lock = t2

====
